---- MODULE Spec2Model ----
(***************************************************************************)
(* Candlestick-CLI: the candle-set statistics engine (CandleSet), the      *)
(* visibility / sizing engine (ChartData), the Chart facade over it and    *)
(* the renderer's candle sampling (ChartRenderer.sampleCandles).           *)
(*                                                                         *)
(* Numbers are integers.  A JavaScript quotient that need not be an        *)
(* integer (CandleSet.average, CandleSet.variation) is kept as the pair    *)
(* <<numerator, denominator>> the code divides.  An absent value           *)
(* (candle.volume, ChartData.timeRange, ChartData.priceRange) is the empty *)
(* tuple <<>>; a present one is a tuple holding it.                        *)
(***************************************************************************)
EXTENDS Integers, Sequences, FiniteSets, TLC

VARIABLES
    mainCandleSet,      \* ChartData.mainCandleSet    (a CandleSet record)
    visibleCandleSet,   \* ChartData.visibleCandleSet (a CandleSet record)
    terminalSize,       \* ChartData.terminalSize     [width, height]
    width,              \* ChartData.width
    height,             \* ChartData.height
    margins,            \* ChartData.margins          [top, right, bottom, left]
    scalingMode,        \* ChartData.scalingMode      "fit" | "fixed" | "price"
    timeRange,          \* ChartData.timeRange        <<>> | <<start, end>>
    priceRange,         \* ChartData.priceRange       <<>> | <<min, max>>
    volumePane,         \* Chart.volumePane           [height, enabled]
    lastCall,           \* the call that produced this state: [op, args, threw]
    sampler,            \* one run of a sampling routine, pass by pass
    returned,           \* what the last call returned: the pieces render pushed
    autoResize,         \* Chart._cleanupAutoResize and the callbacks registered
    callerArray         \* the array handed to new Chart: [candles, shared]

vars == <<mainCandleSet, visibleCandleSet, terminalSize, width, height, margins,
          scalingMode, timeRange, priceRange, volumePane, lastCall, sampler, returned,
          autoResize, callerArray>>

chartVars == <<mainCandleSet, visibleCandleSet, terminalSize, width, height, margins,
               scalingMode, timeRange, priceRange, volumePane, lastCall, returned>>

(***************************************************************************)
(* Bounds of the model.                                                    *)
(***************************************************************************)
MaxCandles == 3     \* longest main candle sequence of Spec
MaxAppend == 1      \* longest array handed to addCandles / updateCandles
MaxSample == 9      \* longest candle sequence handed to a sampling routine
NegTargets == 2     \* target counts / widths go down to -NegTargets

(***************************************************************************)
(* Program constants.                                                      *)
(***************************************************************************)
MARGIN_TOP == 3
WIDTH == 4 + 1 + 2 + 2
MIN_HEIGHT == 10
HEIGHT_OFFSET == 2
FALLBACK_WIDTH == 120
FALLBACK_HEIGHT == 30
MARGIN_RIGHT == 2
MIN_CANDLES == 5
MAX_CANDLES == 10000

(***************************************************************************)
(* JavaScript arithmetic and array helpers.                                *)
(***************************************************************************)
Max2(a, b) == IF a >= b THEN a ELSE b
Min2(a, b) == IF a <= b THEN a ELSE b

\* Math.floor(a / b) for b # 0
FloorDiv(a, b) == IF b > 0 THEN a \div b ELSE (0 - a) \div (0 - b)

RECURSIVE MathMax(_)
\* Math.max(...xs) of a non-empty list
MathMax(xs) == IF Len(xs) = 1 THEN xs[1] ELSE Max2(xs[1], MathMax(Tail(xs)))

RECURSIVE MathMin(_)
\* Math.min(...xs) of a non-empty list
MathMin(xs) == IF Len(xs) = 1 THEN xs[1] ELSE Min2(xs[1], MathMin(Tail(xs)))

RECURSIVE Sum(_)
\* xs.reduce((sum, x) => sum + x, 0)
Sum(xs) == IF Len(xs) = 0 THEN 0 ELSE xs[1] + Sum(Tail(xs))

\* arr[i] with a 0-based index; an index outside the array reads `undef`
At(arr, i, undef) == IF 0 <= i /\ i < Len(arr) THEN arr[i + 1] ELSE undef

\* arr.slice(start, end): negative indices count from the end, both are clamped
slice(arr, start, end) ==
    LET n == Len(arr)
        from == IF start < 0 THEN Max2(n + start, 0) ELSE Min2(start, n)
        to == IF end < 0 THEN Max2(n + end, 0) ELSE Min2(end, n)
    IN  SubSeq(arr, from + 1, to)

\* arr.includes(x)
includes(arr, x) == \E k \in 1..Len(arr) : arr[k] = x

\* arr.indexOf(x): the first 0-based position of x, -1 when absent
indexOf(arr, x) ==
    IF includes(arr, x)
    THEN (CHOOSE k \in 1..Len(arr) : arr[k] = x /\ \A m \in 1..(k - 1) : arr[m] # x) - 1
    ELSE 0 - 1

\* arr.splice(at, 0, x): insert x before 0-based position at
splice(arr, at, x) == SubSeq(arr, 1, at) \o <<x>> \o SubSeq(arr, at + 1, Len(arr))

(***************************************************************************)
(* Candles.  The pool holds validated candles (validateCandle): high >=    *)
(* max(open, close), low <= min(open, close), volume >= 0 when present.    *)
(***************************************************************************)
Candle(o, h, l, c, v) == [open |-> o, high |-> h, low |-> l, close |-> c, volume |-> v]

\* what reading past the end of a candle array yields
UndefinedCandle == [undefined |-> TRUE]

CandlePool ==
    { Candle(1, 3, 1, 2, <<2>>),     \* bullish, body [1,2]
      Candle(5, 5, 3, 4, <<>>),      \* bearish, body [4,5], no volume
      Candle(2, 4, 0, 2, <<0>>) }    \* flat body [2,2], volume 0

RECURSIVE SeqsUpTo(_, _)
\* every sequence over S of length 0..n
SeqsUpTo(S, n) ==
    IF n = 0 THEN {<<>>}
    ELSE LET shorter == SeqsUpTo(S, n - 1)
         IN  shorter \cup {Append(s, x) : s \in {t \in shorter : Len(t) = n - 1}, x \in S}

IsCandle(c) == c # UndefinedCandle

\* validateCandle: does it throw?  (the fields of a model candle are numbers)
validateCandleThrows(candle) ==
    \/ ~IsCandle(candle)
    \/ candle.high < Max2(candle.open, candle.close)
    \/ candle.low > Min2(candle.open, candle.close)
    \/ candle.volume # <<>> /\ candle.volume[1] < 0

\* validateCandles: does it throw?
validateCandlesThrows(candles) ==
    \/ Len(candles) = 0
    \/ Len(candles) < MIN_CANDLES
    \/ Len(candles) > MAX_CANDLES
    \/ \E i \in 1..Len(candles) : validateCandleThrows(candles[i])

(***************************************************************************)
(* CandleSet (src/src/chart/candle-set.ts).  A CandleSet is the record of  *)
(* its fields: candles and the eight statistics.                           *)
(***************************************************************************)
Zero == <<0, 1>>     \* the number 0 in a field that holds a quotient

\* resetStats that forgets the cumulative volume: a variant against which
\* the consistency of the statistics is tested for sensitivity.
resetStats_keepVolume(cs) ==
    [cs EXCEPT !.minPrice = 0, !.maxPrice = 0, !.minVolume = 0, !.maxVolume = 0,
               !.variation = Zero, !.average = Zero, !.lastPrice = 0]

\* CandleSet.resetStats
resetStats(cs) ==
    [cs EXCEPT !.minPrice = 0, !.maxPrice = 0, !.minVolume = 0, !.maxVolume = 0,
               !.variation = Zero, !.average = Zero, !.lastPrice = 0,
               !.cumulativeVolume = 0]

RECURSIVE flatPrices_highsOnly(_)
\* The pooled prices without the lows: a variant against which the price
\* extremes are tested for sensitivity.
flatPrices_highsOnly(candles) ==
    IF Len(candles) = 0 THEN <<>>
    ELSE <<candles[1].high>> \o flatPrices_highsOnly(Tail(candles))

\* candles.flatMap(c => [c.high, c.low])
RECURSIVE flatPrices(_)
flatPrices(candles) ==
    IF Len(candles) = 0 THEN <<>>
    ELSE <<candles[1].high, candles[1].low>> \o flatPrices(Tail(candles))

\* candles.map(c => c.volume).filter(vol => vol !== undefined)
RECURSIVE definedVolumes(_)
definedVolumes(candles) ==
    IF Len(candles) = 0 THEN <<>>
    ELSE (IF candles[1].volume = <<>> THEN <<>> ELSE <<candles[1].volume[1]>>)
         \o definedVolumes(Tail(candles))

\* The statistics computeAll assigns for a non-empty sequence of candles.
computeStats(cs) ==
    LET candles == cs.candles
        prices == flatPrices(candles)
        volumes == definedVolumes(candles)
        firstPrice == candles[1].open
        lastPrice == candles[Len(candles)].close
    IN  [cs EXCEPT
            !.minPrice = MathMin(prices),
            !.maxPrice = MathMax(prices),
            !.minVolume = IF Len(volumes) > 0 THEN MathMin(volumes) ELSE 0,
            !.maxVolume = IF Len(volumes) > 0 THEN MathMax(volumes) ELSE 0,
            !.cumulativeVolume = IF Len(volumes) > 0 THEN Sum(volumes) ELSE 0,
            !.lastPrice = lastPrice,
            !.variation = <<(lastPrice - firstPrice) * 100, firstPrice>>,
            !.average = <<Sum(prices), Len(prices)>>]

\* computeAll throws a TypeError (reading .high of undefined) before it assigns
\* anything when the array holds an undefined element.
computeAllThrows(candles) == \E k \in 1..Len(candles) : ~IsCandle(candles[k])

\* CandleSet.computeAll
computeAll(cs) ==
    IF Len(cs.candles) = 0 THEN resetStats(cs)
    ELSE IF computeAllThrows(cs.candles) THEN cs
    ELSE computeStats(cs)

\* new CandleSet(candles): the field initialisers, then the constructor body
CandleSet_new(candles) ==
    computeAll([candles |-> candles, minPrice |-> 0, maxPrice |-> 0, minVolume |-> 0,
                maxVolume |-> 0, variation |-> Zero, average |-> Zero,
                lastPrice |-> 0, cumulativeVolume |-> 0])

\* addCandles putting the new candles in front
CandleSet_addCandles_prepend(cs, newCandles) ==
    computeAll([cs EXCEPT !.candles = newCandles \o cs.candles])

\* CandleSet.addCandles
CandleSet_addCandles(cs, newCandles) ==
    computeAll([cs EXCEPT !.candles = cs.candles \o newCandles])

\* CandleSet.setCandles
CandleSet_setCandles(cs, newCandles) ==
    computeAll([cs EXCEPT !.candles = newCandles])

\* CandleSet.getStats
getStats(cs) ==
    [minPrice |-> cs.minPrice, maxPrice |-> cs.maxPrice, minVolume |-> cs.minVolume,
     maxVolume |-> cs.maxVolume, variation |-> cs.variation, average |-> cs.average,
     lastPrice |-> cs.lastPrice, cumulativeVolume |-> cs.cumulativeVolume]

(***************************************************************************)
(* Sampling.  `undef` is what an out-of-range read of the array yields.    *)
(***************************************************************************)
RECURSIVE widthLoop(_, _, _, _)
\* for (let i = step; i < totalCandles - 1; i += step) sampledCandles.push(allCandles[i])
widthLoop(allCandles, i, step, sampledCandles) ==
    IF i < Len(allCandles) - 1
    THEN widthLoop(allCandles, i + step, step, Append(sampledCandles, allCandles[i + 1]))
    ELSE sampledCandles

\* ChartData.sampleCandlesForWidth
sampleCandlesForWidth(allCandles, availableWidth, undef) ==
    LET totalCandles == Len(allCandles)
        first == <<At(allCandles, 0, undef)>>
        \* totalCandles / 0 is Infinity (NaN for 0 / 0): the loop does not run
        strided == IF availableWidth = 0 THEN first
                   ELSE widthLoop(allCandles,
                                  Max2(1, FloorDiv(totalCandles, availableWidth)),
                                  Max2(1, FloorDiv(totalCandles, availableWidth)),
                                  first)
    IN  IF totalCandles <= availableWidth THEN allCandles
        ELSE IF totalCandles > 1 THEN Append(strided, allCandles[totalCandles])
        ELSE strided

RECURSIVE strideLoop(_, _, _, _, _)
\* for (let i = step; i < candles.length - 1; i += step) {
\*   if (sampled.length >= targetCount - 1) break; sampled.push(candles[i]) }
strideLoop(candles, i, step, targetCount, sampled) ==
    IF i < Len(candles) - 1 /\ ~(Len(sampled) >= targetCount - 1)
    THEN strideLoop(candles, i + step, step, targetCount, Append(sampled, candles[i + 1]))
    ELSE sampled

\* The stride pass without its closing push of the last candle: a variant
\* against which the endpoint property is tested for sensitivity.
stridePass_noLast(candles, targetCount, undef) ==
    IF targetCount - 2 = 0 THEN <<At(candles, 0, undef)>>
    ELSE strideLoop(candles,
                    Max2(1, FloorDiv(Len(candles), targetCount - 2)),
                    Max2(1, FloorDiv(Len(candles), targetCount - 2)),
                    targetCount, <<At(candles, 0, undef)>>)

\* ChartRenderer.sampleCandles, lines 1618-1627: first candle, stride, last candle
stridePass(candles, targetCount, undef) ==
    LET first == <<At(candles, 0, undef)>>
        \* candles.length / 0 is Infinity: the loop does not run
        strided == IF targetCount - 2 = 0 THEN first
                   ELSE strideLoop(candles,
                                   Max2(1, FloorDiv(Len(candles), targetCount - 2)),
                                   Max2(1, FloorDiv(Len(candles), targetCount - 2)),
                                   targetCount, first)
    IN  Append(strided, At(candles, Len(candles) - 1, undef))

RECURSIVE findInsertFrom(_, _, _, _)
findInsertFrom(sampled, candles, candleIndex, j) ==
    IF j < Len(sampled)
    THEN IF indexOf(candles, sampled[j + 1]) > candleIndex THEN j
         ELSE findInsertFrom(sampled, candles, candleIndex, j + 1)
    ELSE Len(sampled)

\* ChartRenderer.findInsertPosition
findInsertPosition(sampled, candles, candleIndex) ==
    findInsertFrom(sampled, candles, candleIndex, 0)

RECURSIVE fillLoop(_, _, _, _, _)
fillLoop(sampled, candles, targetCount, i, gapStep) ==
    IF i < Len(candles) - 1 /\ ~(Len(sampled) >= targetCount)
    THEN fillLoop(IF ~includes(sampled, candles[i + 1])
                  THEN splice(sampled, findInsertPosition(sampled, candles, i),
                              candles[i + 1])
                  ELSE sampled,
                  candles, targetCount, i + gapStep, gapStep)
    ELSE sampled

\* ChartRenderer.fillRemainingCandles (called only when sampled.length < targetCount)
fillRemainingCandles(sampled, candles, targetCount) ==
    LET remaining == targetCount - Len(sampled)
        gapStep == Max2(1, FloorDiv(Len(candles), remaining * 2))
    IN  fillLoop(sampled, candles, targetCount, gapStep, gapStep)

\* ChartRenderer.sampleCandles, lines 1628-1630: the gap-fill pass when short
fillPass(sampled, candles, targetCount) ==
    IF Len(sampled) < targetCount
    THEN fillRemainingCandles(sampled, candles, targetCount)
    ELSE sampled

\* ChartRenderer.sampleCandles
sampleCandles(candles, targetCount, undef) ==
    IF Len(candles) <= targetCount THEN candles
    ELSE slice(fillPass(stridePass(candles, targetCount, undef), candles, targetCount),
               0, targetCount)

(***************************************************************************)
(* ChartData (src/unnamed/part_008).  A method is an operator from the     *)
(* object's fields (the record cd) to its fields after the call.           *)
(***************************************************************************)
DefaultMargins == [top |-> 3, right |-> 4, bottom |-> 2, left |-> 0]

\* The overlap test with strict comparisons: a variant against which the
\* price filter is tested for sensitivity at the boundaries of the window.
priceOverlaps_strict(candle, min, max) ==
    /\ Min2(candle.open, candle.close) < max
    /\ Max2(candle.open, candle.close) > min

\* candleMin <= max && candleMax >= min
priceOverlaps(candle, min, max) ==
    LET candleMin == Min2(candle.open, candle.close)
        candleMax == Max2(candle.open, candle.close)
    IN  candleMin <= max /\ candleMax >= min

\* allCandles.filter(candle => ...)
filterByPrice(allCandles, min, max) ==
    LET keep(candle) == priceOverlaps(candle, min, max)
    IN  SelectSeq(allCandles, keep)

\* const availableWidth = this.width - CONSTANTS.WIDTH - margins.left - margins.right
availableWidthOf(cd) == cd.width - WIDTH - cd.margins.left - cd.margins.right

\* The visible array with slice(start, end) in fixed mode, the end index
\* excluded: a variant against which the fixed window is tested for sensitivity.
visibleCandlesOf_exclusiveEnd(cd) ==
    IF cd.scalingMode = "fixed" /\ cd.timeRange # <<>>
    THEN slice(cd.mainCandleSet.candles, cd.timeRange[1], cd.timeRange[2])
    ELSE IF cd.scalingMode = "price" /\ cd.priceRange # <<>>
    THEN filterByPrice(cd.mainCandleSet.candles, cd.priceRange[1], cd.priceRange[2])
    ELSE IF cd.scalingMode = "fit"
    THEN cd.mainCandleSet.candles
    ELSE sampleCandlesForWidth(cd.mainCandleSet.candles, availableWidthOf(cd),
                               UndefinedCandle)

\* The array computeVisibleCandles hands to visibleCandleSet.setCandles.
visibleCandlesOf(cd) ==
    LET allCandles == cd.mainCandleSet.candles
    IN  IF cd.scalingMode = "fixed" /\ cd.timeRange # <<>>
        THEN slice(allCandles, cd.timeRange[1], cd.timeRange[2] + 1)
        ELSE IF cd.scalingMode = "price" /\ cd.priceRange # <<>>
        THEN filterByPrice(allCandles, cd.priceRange[1], cd.priceRange[2])
        ELSE IF cd.scalingMode = "fit"
        THEN allCandles
        ELSE sampleCandlesForWidth(allCandles, availableWidthOf(cd), UndefinedCandle)

\* ChartData.computeVisibleCandles
computeVisibleCandles(cd) ==
    [cd EXCEPT !.visibleCandleSet = CandleSet_setCandles(@, visibleCandlesOf(cd))]

\* computeVisibleCandles ends in the TypeError of computeAll
computeVisibleThrows(cd) == computeAllThrows(visibleCandlesOf(cd))

\* ChartData.computeHeight
computeHeight(cd, volumePaneHeight) ==
    LET volumePaneHeightActual == volumePaneHeight
        availableHeight == cd.terminalSize.height - MARGIN_TOP - volumePaneHeightActual
    IN  [cd EXCEPT !.height = Max2(availableHeight - HEIGHT_OFFSET, MIN_HEIGHT)]

\* ChartData.resetCandles
resetCandles(cd) ==
    [cd EXCEPT !.mainCandleSet = CandleSet_setCandles(@, <<>>),
               !.visibleCandleSet = CandleSet_setCandles(@, <<>>)]

\* ChartData.addCandles
addCandles(cd, candles) ==
    [cd EXCEPT !.mainCandleSet = CandleSet_addCandles(@, candles),
               !.visibleCandleSet = CandleSet_setCandles(@, <<>>)]

\* ChartData.setSize
setSize(cd, w, h) ==
    [cd EXCEPT !.terminalSize = [width |-> w, height |-> h], !.width = w, !.height = h]

\* ChartData.setMargins
setMargins(cd, m) == computeVisibleCandles([cd EXCEPT !.margins = m])

\* setScalingMode without the recomputation of the visible set: a variant
\* against which the derivation of the visible set is tested for sensitivity.
setScalingMode_noRecompute(cd, mode) == [cd EXCEPT !.scalingMode = mode]

\* ChartData.setScalingMode
setScalingMode(cd, mode) == computeVisibleCandles([cd EXCEPT !.scalingMode = mode])

\* The guard with > for >=: a variant against which the rejection of
\* min = max is tested for sensitivity.
setPriceRangeThrows_strict(minPrice, maxPrice) == minPrice > maxPrice

\* ChartData.setPriceRange: the guard that throws Error
setPriceRangeThrows(minPrice, maxPrice) == minPrice >= maxPrice

\* ChartData.setPriceRange
setPriceRange(cd, minPrice, maxPrice) ==
    IF setPriceRangeThrows(minPrice, maxPrice) THEN cd
    ELSE computeVisibleCandles([cd EXCEPT !.priceRange = <<minPrice, maxPrice>>])

\* ChartData.setTimeRange
setTimeRange(cd, startIndex, endIndex) ==
    computeVisibleCandles([cd EXCEPT !.timeRange = <<startIndex, endIndex>>])

\* ChartData.fitToData
fitToData(cd) ==
    computeVisibleCandles([cd EXCEPT !.scalingMode = "fit", !.timeRange = <<>>,
                                     !.priceRange = <<>>])

\* new ChartData(candles, { width, height })
ChartData_new(candles, w, h) ==
    computeVisibleCandles(
        setSize([mainCandleSet |-> CandleSet_new(candles),
                 visibleCandleSet |-> CandleSet_new(<<>>),
                 terminalSize |-> [width |-> 0, height |-> 0],
                 width |-> 0, height |-> 0,
                 margins |-> DefaultMargins, scalingMode |-> "fit",
                 timeRange |-> <<>>, priceRange |-> <<>>],
                w, h))

\* validateTimeRange (src/src/utils/validation.ts): does it throw?
validateTimeRangeThrows(startIndex, endIndex, maxLength) ==
    \/ startIndex < 0
    \/ endIndex < 0
    \/ startIndex >= maxLength
    \/ endIndex >= maxLength
    \/ startIndex > endIndex

(***************************************************************************)
(* Rendering.  A JavaScript number that need not be an integer is a        *)
(* fraction <<numerator, denominator>> with a positive denominator.        *)
(***************************************************************************)
\* n / d with the sign carried by the numerator (d # 0)
Frac(n, d) == IF d < 0 THEN <<0 - n, 0 - d>> ELSE <<n, d>>

\* Math.floor(q), Math.ceil(q)
floor(q) == q[1] \div q[2]

ceil(q) == 0 - ((0 - q[1]) \div q[2])

\* q - y for an integer y
Minus(q, y) == <<q[1] - y * q[2], q[2]>>

\* p > q, p < q, p >= q
Greater(p, q) == p[1] * q[2] > q[1] * p[2]

Less(p, q) == p[1] * q[2] < q[1] * p[2]

AtLeast(p, q) == p[1] * q[2] >= q[1] * p[2]

MIN_DIFF_THRESHOLD == <<1, 4>>    \* 0.25
MAX_DIFF_THRESHOLD == <<3, 4>>    \* 0.75
Y_AXIS_SPACING == 4

UNICODE_BODY == "body"
UNICODE_BOTTOM == "bottom"
UNICODE_HALF_BODY_BOTTOM == "half_body_bottom"
UNICODE_HALF_BODY_TOP == "half_body_top"
UNICODE_FILL == "fill"
UNICODE_TOP == "top"
UNICODE_VOID == "void"
UNICODE_WICK == "wick"
UNICODE_WICK_LOWER == "wick_lower"
UNICODE_WICK_UPPER == "wick_upper"

\* priceToHeights dividing by the price spread as it is
priceToHeights_noGuard(cd, candle) ==
    LET minOpen == Min2(candle.close, candle.open)
        maxOpen == Max2(candle.close, candle.open)
        minValue == cd.visibleCandleSet.minPrice
        diff == cd.visibleCandleSet.maxPrice - minValue
    IN  <<Frac((candle.high - minValue) * cd.height, diff),
          Frac((candle.low - minValue) * cd.height, diff),
          Frac((maxOpen - minValue) * cd.height, diff),
          Frac((minOpen - minValue) * cd.height, diff)>>

\* YAxis.priceToHeights: [highY, lowY, maxY, minY] of a candle
priceToHeights(cd, candle) ==
    LET minOpen == Min2(candle.close, candle.open)
        maxOpen == Max2(candle.close, candle.open)
        minValue == cd.visibleCandleSet.minPrice
        spread == cd.visibleCandleSet.maxPrice - minValue
        diff == IF spread = 0 THEN 1 ELSE spread
    IN  <<Frac((candle.high - minValue) * cd.height, diff),
          Frac((candle.low - minValue) * cd.height, diff),
          Frac((maxOpen - minValue) * cd.height, diff),
          Frac((minOpen - minValue) * cd.height, diff)>>

\* renderUpperCandlePart with the thresholds included (>= for >)
renderUpperCandlePart_inclusive(heightUnit, highY, maxY) ==
    LET maxDiff == Minus(maxY, heightUnit)
        highDiff == Minus(highY, heightUnit)
    IN  IF AtLeast(maxDiff, MAX_DIFF_THRESHOLD) THEN UNICODE_BODY
        ELSE IF AtLeast(maxDiff, MIN_DIFF_THRESHOLD)
        THEN (IF AtLeast(highDiff, MAX_DIFF_THRESHOLD) THEN UNICODE_TOP
              ELSE UNICODE_HALF_BODY_BOTTOM)
        ELSE IF AtLeast(highDiff, MAX_DIFF_THRESHOLD) THEN UNICODE_WICK
        ELSE IF AtLeast(highDiff, MIN_DIFF_THRESHOLD) THEN UNICODE_WICK_UPPER
        ELSE UNICODE_VOID

\* renderUpperCandlePart without its final return
renderUpperCandlePart_noDefault(heightUnit, highY, maxY) ==
    LET maxDiff == Minus(maxY, heightUnit)
        highDiff == Minus(highY, heightUnit)
    IN  IF Greater(maxDiff, MAX_DIFF_THRESHOLD) THEN UNICODE_BODY
        ELSE IF Greater(maxDiff, MIN_DIFF_THRESHOLD)
        THEN (IF Greater(highDiff, MAX_DIFF_THRESHOLD) THEN UNICODE_TOP
              ELSE UNICODE_HALF_BODY_BOTTOM)
        ELSE IF Greater(highDiff, MAX_DIFF_THRESHOLD) THEN UNICODE_WICK
        ELSE IF Greater(highDiff, MIN_DIFF_THRESHOLD) THEN UNICODE_WICK_UPPER
        ELSE "undefined"

\* ChartRenderer.renderUpperCandlePart
renderUpperCandlePart(heightUnit, highY, maxY) ==
    LET maxDiff == Minus(maxY, heightUnit)
        highDiff == Minus(highY, heightUnit)
    IN  IF Greater(maxDiff, MAX_DIFF_THRESHOLD) THEN UNICODE_BODY
        ELSE IF Greater(maxDiff, MIN_DIFF_THRESHOLD)
        THEN (IF Greater(highDiff, MAX_DIFF_THRESHOLD) THEN UNICODE_TOP
              ELSE UNICODE_HALF_BODY_BOTTOM)
        ELSE IF Greater(highDiff, MAX_DIFF_THRESHOLD) THEN UNICODE_WICK
        ELSE IF Greater(highDiff, MIN_DIFF_THRESHOLD) THEN UNICODE_WICK_UPPER
        ELSE UNICODE_VOID

\* ChartRenderer.renderLowerCandlePart
renderLowerCandlePart(heightUnit, lowY, minY) ==
    LET minDiff == Minus(minY, heightUnit)
        lowDiff == Minus(lowY, heightUnit)
    IN  IF Less(minDiff, MIN_DIFF_THRESHOLD) THEN UNICODE_BODY
        ELSE IF Less(minDiff, MAX_DIFF_THRESHOLD)
        THEN (IF Less(lowDiff, MIN_DIFF_THRESHOLD) THEN UNICODE_BOTTOM
              ELSE UNICODE_HALF_BODY_TOP)
        ELSE IF Less(lowDiff, MIN_DIFF_THRESHOLD) THEN UNICODE_WICK
        ELSE IF Less(lowDiff, MAX_DIFF_THRESHOLD) THEN UNICODE_WICK_LOWER
        ELSE UNICODE_VOID

\* determineCandleCharacter testing the lower zone before the upper one
determineCandleCharacter_lowerFirst(heightUnit, highY, lowY, maxY, minY) ==
    IF ceil(minY) >= heightUnit /\ heightUnit >= floor(lowY)
    THEN renderLowerCandlePart(heightUnit, lowY, minY)
    ELSE IF ceil(highY) >= heightUnit /\ heightUnit >= floor(maxY)
    THEN renderUpperCandlePart(heightUnit, highY, maxY)
    ELSE IF AtLeast(maxY, <<heightUnit, 1>>) /\ heightUnit >= ceil(minY)
    THEN UNICODE_BODY
    ELSE UNICODE_VOID

\* determineCandleCharacter whose full body has no lower end (the test
\* heightUnit >= ceil(minY) left out)
determineCandleCharacter_openBody(heightUnit, highY, lowY, maxY, minY) ==
    IF ceil(highY) >= heightUnit /\ heightUnit >= floor(maxY)
    THEN renderUpperCandlePart(heightUnit, highY, maxY)
    ELSE IF ceil(minY) >= heightUnit /\ heightUnit >= floor(lowY)
    THEN renderLowerCandlePart(heightUnit, lowY, minY)
    ELSE IF AtLeast(maxY, <<heightUnit, 1>>)
    THEN UNICODE_BODY
    ELSE UNICODE_VOID

\* ChartRenderer.determineCandleCharacter
determineCandleCharacter(heightUnit, highY, lowY, maxY, minY) ==
    IF ceil(highY) >= heightUnit /\ heightUnit >= floor(maxY)
    THEN renderUpperCandlePart(heightUnit, highY, maxY)
    ELSE IF ceil(minY) >= heightUnit /\ heightUnit >= floor(lowY)
    THEN renderLowerCandlePart(heightUnit, lowY, minY)
    ELSE IF AtLeast(maxY, <<heightUnit, 1>>) /\ heightUnit >= ceil(minY)
    THEN UNICODE_BODY
    ELSE UNICODE_VOID

\* ChartRenderer.renderCandle, without the colour
renderCandle(cd, candle, y) ==
    LET heights == priceToHeights(cd, candle)
    IN  determineCandleCharacter(y, heights[1], heights[2], heights[3], heights[4])

\* VolumePane.render filling the row of Math.ceil(ratio) too (<= for <)
VolumePane_render_inclusive(pane, candle, y, maxVolume) ==
    IF candle.volume = <<>> THEN UNICODE_VOID
    ELSE LET ratio == Frac(candle.volume[1] * pane.height,
                           IF maxVolume = 0 THEN 1 ELSE maxVolume)
         IN  IF y <= ceil(ratio) THEN pane.unicodeFill
             ELSE IF y = 1 /\ pane.unicodeFill = UNICODE_FILL
             THEN UNICODE_HALF_BODY_BOTTOM
             ELSE UNICODE_VOID

\* VolumePane.render without the test for an undefined volume: the ratio is
\* NaN, Math.ceil(NaN) is NaN and y < NaN is false
VolumePane_render_noUndefinedTest(pane, candle, y, maxVolume) ==
    LET ratio == Frac((IF candle.volume = <<>> THEN 0 ELSE candle.volume[1]) * pane.height,
                      IF maxVolume = 0 THEN 1 ELSE maxVolume)
    IN  IF candle.volume # <<>> /\ y < ceil(ratio) THEN pane.unicodeFill
        ELSE IF y = 1 /\ pane.unicodeFill = UNICODE_FILL
        THEN UNICODE_HALF_BODY_BOTTOM
        ELSE UNICODE_VOID

\* VolumePane.render, without the colour; pane is [height, unicodeFill]
VolumePane_render(pane, candle, y, maxVolume) ==
    IF candle.volume = <<>> THEN UNICODE_VOID
    ELSE LET ratio == Frac(candle.volume[1] * pane.height,
                           IF maxVolume = 0 THEN 1 ELSE maxVolume)
         IN  IF y < ceil(ratio) THEN pane.unicodeFill
             ELSE IF y = 1 /\ pane.unicodeFill = UNICODE_FILL
             THEN UNICODE_HALF_BODY_BOTTOM
             ELSE UNICODE_VOID

\* formatPrice(value) read back by parseFloat: value.toLocaleString with
\* exactly PRECISION = 2 fraction digits, that is the nearest hundredth (a
\* half goes away from zero), here as a number of hundredths
formatPrice(q) ==
    IF q[1] >= 0 THEN (200 * q[1] + q[2]) \div (2 * q[2])
    ELSE 0 - ((200 * (0 - q[1]) + q[2]) \div (2 * q[2]))

\* roundPrice(value): Y_AXIS_ROUND_MULTIPLIER is 0, nothing but formatPrice
roundPrice(q) == formatPrice(q)

\* the test of one highlight entry in the loop of renderPrice: price and
\* priceUpper in hundredths, the entry's target in two-hundredths
highlightMatches(price, priceUpper, target) ==
    \/ target - 2 * price < 2 /\ 2 * price - target < 2      \* Math.abs(...) < 0.01
    \/ 2 * price <= target /\ target < 2 * priceUpper

\* YAxis.renderPrice(y, highlights): [hasSpecialPrice, the row's price];
\* highlights are the targets of the entries in iteration order
renderPrice(cd, y, highlights) ==
    LET minValue == cd.visibleCandleSet.minPrice
        maxValue == cd.visibleCandleSet.maxPrice
        price == IF y = cd.height THEN formatPrice(<<maxValue, 1>>)
                 ELSE IF y = 1 THEN formatPrice(<<minValue, 1>>)
                 ELSE formatPrice(Frac(minValue * (cd.height - 1)
                                           + (y - 1) * (maxValue - minValue),
                                       cd.height - 1))
        priceUpper == roundPrice(Frac(minValue * cd.height + y * (maxValue - minValue),
                                      cd.height))
    IN  <<\E k \in 1..Len(highlights) : highlightMatches(price, priceUpper, highlights[k]),
          price>>

\* A piece of the output: a line break, an axis cell (glyph "price" when it
\* carries the price of row y, "blank" otherwise), the glyph of a candle in a
\* price row or a volume row, or the statistics text.
Piece(kind, y, glyph) == [kind |-> kind, y |-> y, glyph |-> glyph]

NewLine == Piece("newline", 0, "")

\* YAxis.renderTick: the axis cell of renderPrice for row y
renderTick(cd, y) == Piece("axis", y, "price")

\* YAxis.renderEmpty(y, highlights): with a row y (<<y>>) and a highlight map
\* (the default {} is truthy) the cell is that of renderPrice; without a row
\* (<<>>) it is blank
renderEmpty(cd, y) ==
    IF y # <<>> THEN Piece("axis", y[1], "price") ELSE Piece("axis", 0, "blank")

\* YAxis.renderLine
renderLine(cd, y) ==
    IF y = cd.height \/ y = 1 THEN renderTick(cd, y)
    ELSE IF y % Y_AXIS_SPACING # 0 THEN renderEmpty(cd, <<y>>)
    ELSE renderTick(cd, y)

\* ChartRenderer.renderChartLine (Y_AXIS_ON_THE_RIGHT is false)
renderChartLine(cd, candles, y) ==
    <<NewLine, renderLine(cd, y)>>
        \o [i \in 1..Len(candles) |-> Piece("candle", y, renderCandle(cd, candles[i], y))]

RECURSIVE renderChartRows(_, _, _)
\* for (let y = ...; y > 0; y--) renderChartLine(...)
renderChartRows(cd, candles, y) ==
    IF y > 0 THEN renderChartLine(cd, candles, y) \o renderChartRows(cd, candles, y - 1)
    ELSE <<>>

\* ChartRenderer.renderChartBody
renderChartBody(cd, candles) == renderChartRows(cd, candles, cd.height)

\* ChartRenderer.renderVolumeLine
renderVolumeLine(cd, pane, candles, maxVolume, y) ==
    <<NewLine, renderEmpty(cd, <<>>)>>
        \o [i \in 1..Len(candles) |->
               Piece("volume", y, VolumePane_render(pane, candles[i], y, maxVolume))]

RECURSIVE renderVolumeRows(_, _, _, _, _)
\* for (let y = ...; y > 0; y--) renderVolumeLine(...)
renderVolumeRows(cd, pane, candles, maxVolume, y) ==
    IF y > 0
    THEN renderVolumeLine(cd, pane, candles, maxVolume, y)
             \o renderVolumeRows(cd, pane, candles, maxVolume, y - 1)
    ELSE <<>>

\* ChartRenderer.renderVolumePane
renderVolumePane(cd, pane, candles) ==
    renderVolumeRows(cd, pane, candles, cd.visibleCandleSet.maxVolume, pane.height)
        \o <<NewLine, NewLine>>

\* ChartRenderer.renderChartContent after its computeHeight; the labels and
\* the info bar are the default ones, never empty
renderChartContent(cd, pane, candles) ==
    renderChartBody(cd, candles)
        \o (IF pane.enabled
            THEN renderVolumePane(cd, pane, candles) \o <<Piece("stats", 0, "labels")>>
            ELSE <<Piece("stats", 0, "infoBar")>>)

\* ChartRenderer.render: the candles handed to renderChartContent.  The
\* candles of an array are distinct objects, named by their index while
\* sampleCandles compares them.
candlesToRender(candles, columns) ==
    LET availableWidth == columns - WIDTH - MARGIN_RIGHT
        candlesToShow == Min2(Len(candles), availableWidth * 2)
        picked == sampleCandles([k \in 1..Len(candles) |-> k - 1], candlesToShow, 0 - 1)
    IN  [k \in 1..Len(picked) |->
            IF picked[k] = 0 - 1 THEN UndefinedCandle ELSE candles[picked[k] + 1]]

\* priceToHeights reads candle.close of undefined: a TypeError
renderThrows(cd, candles) ==
    cd.height > 0 /\ \E k \in 1..Len(candles) : ~IsCandle(candles[k])

(***************************************************************************)
(* The object under test: a ChartData and the VolumePane of its Chart.     *)
(***************************************************************************)
\* the ChartData fields of the current state
CD == [mainCandleSet |-> mainCandleSet, visibleCandleSet |-> visibleCandleSet,
       terminalSize |-> terminalSize, width |-> width, height |-> height,
       margins |-> margins, scalingMode |-> scalingMode, timeRange |-> timeRange,
       priceRange |-> priceRange]

\* the next state holds the ChartData cd and records the call and its value
Returns(cd, op, args, threw, value) ==
    /\ mainCandleSet' = cd.mainCandleSet
    /\ visibleCandleSet' = cd.visibleCandleSet
    /\ terminalSize' = cd.terminalSize
    /\ width' = cd.width
    /\ height' = cd.height
    /\ margins' = cd.margins
    /\ scalingMode' = cd.scalingMode
    /\ timeRange' = cd.timeRange
    /\ priceRange' = cd.priceRange
    /\ lastCall' = [op |-> op, args |-> args, threw |-> threw]
    /\ returned' = value

\* the same for a call that returns nothing
Becomes(cd, op, args, threw) == Returns(cd, op, args, threw, <<>>)

(***************************************************************************)
(* Inputs.  A domain names the values the calls draw their arguments from. *)
(* DataDomain exercises candle sequences, scaling modes, price ranges and   *)
(* widths, TimeDomain time ranges, both on a 10-row terminal, where the    *)
(* floor of computeHeight keeps the height at 10; HeightDomain exercises   *)
(* terminal heights, top margins and volume pane heights over a one-candle *)
(* pool.                                                                   *)
(***************************************************************************)
TallMargins == [top |-> 5, right |-> 4, bottom |-> 2, left |-> 0]

\* the candle arrays a chart is constructed from
FiveCandles ==
    <<Candle(1, 3, 1, 2, <<2>>), Candle(5, 5, 3, 4, <<>>), Candle(2, 4, 0, 2, <<0>>),
      Candle(1, 3, 1, 2, <<2>>), Candle(5, 5, 3, 4, <<>>)>>

FiveAlike == [k \in 1..MIN_CANDLES |-> Candle(1, 3, 1, 2, <<2>>)]

\* five candles at one price: the visible maxPrice equals the minPrice
FiveFlat == [k \in 1..MIN_CANDLES |-> Candle(3, 3, 3, 3, <<1>>)]

DataDomain ==
    [initial |-> {FiveCandles, FiveFlat}, columns |-> {FALLBACK_WIDTH}, pool |-> CandlePool, maxLen |-> MaxCandles, maxAppend |-> MaxAppend,
     widths |-> {10, 15}, heights |-> {10},
     margins |-> {DefaultMargins},
     vpHeights |-> {1}, enabled |-> {TRUE},
     modes |-> {"fit", "fixed", "price"},
     timePairs |-> {<<0, 1>>},
     pricePairs |-> {<<2, 3>>, <<3, 4>>, <<3, 3>>, <<4, 2>>}]

TimeDomain ==
    [initial |-> {FiveCandles}, columns |-> {FALLBACK_WIDTH},
     pool |-> {Candle(1, 3, 1, 2, <<2>>), Candle(5, 5, 3, 4, <<>>)},
     maxLen |-> MaxCandles, maxAppend |-> MaxAppend,
     widths |-> {15}, heights |-> {10},
     margins |-> {DefaultMargins},
     vpHeights |-> {1}, enabled |-> {TRUE},
     modes |-> {"fit", "fixed", "price"},
     timePairs |-> ((0 - 1)..(MaxCandles - 1)) \X ((0 - 1)..(MaxCandles - 1)),
     pricePairs |-> {<<2, 3>>, <<3, 3>>}]

HeightDomain ==
    [initial |-> {FiveAlike}, columns |-> {FALLBACK_WIDTH, 12}, pool |-> {Candle(1, 3, 1, 2, <<2>>)}, maxLen |-> 1, maxAppend |-> 1,
     widths |-> {FALLBACK_WIDTH}, heights |-> {12, 24, FALLBACK_HEIGHT},
     margins |-> {DefaultMargins, TallMargins},
     vpHeights |-> {0, 5, 8}, enabled |-> BOOLEAN,
     modes |-> {"fit"},
     timePairs |-> {<<0, 0>>},
     pricePairs |-> {<<2, 3>>, <<3, 3>>}]

\* no auto-resize: no cleanup function, no listener, interval or timeout
AutoResizeOff == [cleanup |-> <<>>, listeners |-> {}, intervals |-> {}, timeouts |-> {},
                  enables |-> 0]

\* the sampler is not running
SamplerIdle == [pc |-> "idle", routine |-> "none", candles |-> <<>>, target |-> 0,
                sampled |-> <<>>]

\* CandleSet.addCandles pushes into this.candles: while the main set still
\* holds the array its constructor was given (this.candles = candles), the
\* push lands in the caller's array
pushInto(ca, main) == IF ca.shared THEN [ca EXCEPT !.candles = main.candles] ELSE ca

\* CandleSet.setCandles on the main set binds this.candles to another array
rebound(ca) == [ca EXCEPT !.shared = FALSE]

\* new Chart(candles, { width, height }): validateCandles(candles),
\* new ChartData(candles, { width, height }), then
\* new VolumePane(Math.floor(this.chartData.height / 6))
NewChart(D, calls) ==
    \E candles \in D.initial, w \in D.widths, h \in D.heights :
        LET cd == ChartData_new(candles, w, h)
        IN  /\ ~validateCandlesThrows(candles)
            /\ callerArray = [candles |-> candles, shared |-> TRUE]
            /\ mainCandleSet = cd.mainCandleSet
            /\ visibleCandleSet = cd.visibleCandleSet
            /\ terminalSize = cd.terminalSize
            /\ width = cd.width
            /\ height = cd.height
            /\ margins = cd.margins
            /\ scalingMode = cd.scalingMode
            /\ timeRange = cd.timeRange
            /\ priceRange = cd.priceRange
            /\ volumePane = [height |-> FloorDiv(cd.height, 6), enabled |-> TRUE,
                             unicodeFill |-> UNICODE_FILL]
            /\ lastCall \in calls
            /\ returned = <<>>

InitChart(D) == NewChart(D, {[op |-> "new", args |-> <<>>, threw |-> "none"]})

(***************************************************************************)
(* The calls of the Chart API (src/src/chart/chart.ts, class Chart of      *)
(* lines 603-1110).  lastCall.args keeps the arguments of setTimeRange and  *)
(* of a setPriceRange that failed.                                         *)
(***************************************************************************)
\* what a call that ends in computeVisibleCandles throws, if anything
TypeErrorIf(cond) == IF cond THEN "TypeError" ELSE "none"

\* the same inside try { ... } catch { throw new ConfigurationError(...) }
ConfigurationErrorIf(cond) == IF cond THEN "ConfigurationError" ELSE "none"

\* chart.updateCandles(candles, reset)
Chart_updateCandles(D) ==
    \E candles \in SeqsUpTo(D.pool, D.maxAppend), reset \in BOOLEAN :
        LET start == IF reset THEN resetCandles(CD) ELSE CD
            added == addCandles(start, candles)
        IN  /\ Len(added.mainCandleSet.candles) <= D.maxLen
            /\ Becomes(computeVisibleCandles(added), "updateCandles", <<candles, reset>>,
                       TypeErrorIf(computeVisibleThrows(added)))
            /\ callerArray' = pushInto(IF reset THEN rebound(callerArray) ELSE callerArray,
                                       added.mainCandleSet)
            /\ UNCHANGED <<volumePane, sampler, autoResize>>

\* chart.updateSize(width, height)
Chart_updateSize(D) ==
    \E w \in D.widths, h \in D.heights :
        IF w = terminalSize.width /\ h = terminalSize.height
        THEN /\ Becomes(CD, "updateSize", <<>>, "none")
             /\ UNCHANGED <<volumePane, sampler, autoResize, callerArray>>
        ELSE LET sized == setSize(CD, w, h)
                 threw == computeVisibleThrows(sized)
             IN  /\ Becomes(computeVisibleCandles(sized), "updateSize", <<>>,
                            TypeErrorIf(threw))
                 /\ volumePane' =
                        IF ~threw /\ volumePane.enabled
                        THEN [volumePane EXCEPT !.height = FloorDiv(sized.height, 6)]
                        ELSE volumePane
                 /\ UNCHANGED <<sampler, autoResize, callerArray>>

\* chart.setMargins(top, right, bottom, left)
Chart_setMargins(D) ==
    \E m \in D.margins :
        /\ Becomes(setMargins(CD, m), "setMargins", <<>>,
                   ConfigurationErrorIf(computeVisibleThrows([CD EXCEPT !.margins = m])))
        /\ UNCHANGED <<volumePane, sampler, autoResize, callerArray>>

\* chart.setScalingMode(mode)
Chart_setScalingMode(D) ==
    \E mode \in D.modes :
        /\ Becomes(setScalingMode(CD, mode), "setScalingMode", <<>>,
                   TypeErrorIf(computeVisibleThrows([CD EXCEPT !.scalingMode = mode])))
        /\ UNCHANGED <<volumePane, sampler, autoResize, callerArray>>

\* chart.setPriceRange(minPrice, maxPrice)
Chart_setPriceRange(D) ==
    \E pair \in D.pricePairs :
        /\ IF setPriceRangeThrows(pair[1], pair[2])
           THEN Becomes(setPriceRange(CD, pair[1], pair[2]), "setPriceRange", pair, "Error")
           ELSE Becomes(setPriceRange(CD, pair[1], pair[2]), "setPriceRange", <<>>,
                        TypeErrorIf(computeVisibleThrows([CD EXCEPT !.priceRange = pair])))
        /\ UNCHANGED <<volumePane, sampler, autoResize, callerArray>>

\* chart.setTimeRange(startIndex, endIndex), lines 1079-1086
Chart_setTimeRange(D) ==
    \E pair \in D.timePairs :
        /\ Becomes(setTimeRange(CD, pair[1], pair[2]), "setTimeRange", pair,
                   ConfigurationErrorIf(computeVisibleThrows([CD EXCEPT !.timeRange = pair])))
        /\ UNCHANGED <<volumePane, sampler, autoResize, callerArray>>

\* chart.fitToData()
Chart_fitToData ==
    /\ Becomes(fitToData(CD), "fitToData", <<>>, "none")
    /\ UNCHANGED <<volumePane, sampler, autoResize, callerArray>>

\* chart.setVolumePaneHeight(height)
Chart_setVolumePaneHeight(D) ==
    \E v \in D.vpHeights :
        /\ volumePane' = [volumePane EXCEPT !.height = v]
        /\ Becomes(CD, "setVolumePaneHeight", <<>>, "none")
        /\ UNCHANGED <<sampler, autoResize, callerArray>>

\* chart.setVolumePaneEnabled(enabled)
Chart_setVolumePaneEnabled(D) ==
    \E enabled \in D.enabled :
        /\ volumePane' = [volumePane EXCEPT !.enabled = enabled]
        /\ Becomes(CD, "setVolumePaneEnabled", <<>>, "none")
        /\ UNCHANGED <<sampler, autoResize, callerArray>>

\* chart.render() on a terminal of `columns` columns (kept in lastCall.args):
\* ChartRenderer.render
\* and renderChartContent both call chartData.computeHeight(volumePane.height);
\* no other field is assigned
Chart_render(D) ==
    /\ \E columns \in D.columns :
           LET cd == computeHeight(CD, volumePane.height)
               candles == candlesToRender(cd.visibleCandleSet.candles, columns)
           IN  IF renderThrows(cd, candles)
               THEN Becomes(cd, "render", <<columns>>, "TypeError")
               ELSE Returns(cd, "render", <<columns>>, "none",
                            renderChartContent(cd, volumePane, candles))
    /\ UNCHANGED <<volumePane, sampler, autoResize, callerArray>>

NextChart(D) ==
    \/ Chart_updateCandles(D)
    \/ Chart_updateSize(D)
    \/ Chart_setMargins(D)
    \/ Chart_setScalingMode(D)
    \/ Chart_setPriceRange(D)
    \/ Chart_setTimeRange(D)
    \/ Chart_fitToData
    \/ Chart_setVolumePaneHeight(D)
    \/ Chart_setVolumePaneEnabled(D)
    \/ Chart_render(D)

(***************************************************************************)
(* Auto-resize (chart.ts:954-998).  Every enableAutoResize call creates    *)
(* one resizeHandler closure, named by the number of the call; the same    *)
(* closure is the 'resize' listener, the interval callback and the body of *)
(* the initial timeout.                                                    *)
(***************************************************************************)
MaxEnables == 2

ResizeDomain ==
    [initial |-> {FiveAlike}, columns |-> {FALLBACK_WIDTH},
     widths |-> {FALLBACK_WIDTH}, heights |-> {12, 24, FALLBACK_HEIGHT}]

\* this._cleanupAutoResize(): stdout.off('resize', handler), clearInterval
cleanupAutoResize(ar) ==
    IF ar.cleanup = <<>> THEN ar
    ELSE [ar EXCEPT !.listeners = @ \ {ar.cleanup[1]},
                    !.intervals = @ \ {ar.cleanup[1]},
                    !.cleanup = <<>>]

\* chart.disableAutoResize()
Chart_disableAutoResize ==
    /\ autoResize' = cleanupAutoResize(autoResize)
    /\ Becomes(CD, "disableAutoResize", <<>>, "none")
    /\ UNCHANGED <<volumePane, sampler, callerArray>>

\* chart.enableAutoResize(interval) where process.stdout exists
Chart_enableAutoResize ==
    /\ autoResize.enables < MaxEnables
    /\ LET k == autoResize.enables + 1
           off == cleanupAutoResize(autoResize)
       IN  autoResize' = [cleanup |-> <<k>>,
                          listeners |-> off.listeners \cup {k},
                          intervals |-> off.intervals \cup {k},
                          timeouts |-> off.timeouts \cup {k},
                          enables |-> k]
    /\ Becomes(CD, "enableAutoResize", <<>>, "none")
    /\ UNCHANGED <<volumePane, sampler, callerArray>>

\* resizeHandler of the k-th enableAutoResize, run by `source` on a terminal
\* of w columns and h rows: updateSizeFromTerminal(), then await draw(); an
\* error of either is caught and logged, and draw is not reached when the
\* update failed
resizeHandler(D, source, k) ==
    \E w \in D.widths, h \in D.heights :
        LET same == w = terminalSize.width /\ h = terminalSize.height
            sized == IF same THEN CD ELSE setSize(CD, w, h)
            failed == ~same /\ computeVisibleThrows(sized)
            updated == IF same THEN CD ELSE computeVisibleCandles(sized)
            pane == IF ~same /\ ~failed /\ volumePane.enabled
                    THEN [volumePane EXCEPT !.height = FloorDiv(sized.height, 6)]
                    ELSE volumePane
            cd == IF failed THEN updated ELSE computeHeight(updated, pane.height)
            candles == candlesToRender(cd.visibleCandleSet.candles, w)
        IN  /\ volumePane' = pane
            /\ IF failed \/ renderThrows(cd, candles)
               THEN Becomes(cd, "resizeHandler", <<source, k>>, "caught")
               ELSE Returns(cd, "resizeHandler", <<source, k>>, "none",
                            renderChartContent(cd, pane, candles))

\* process.stdout emits 'resize'
Auto_resizeEvent(D) ==
    \E k \in autoResize.listeners :
        /\ resizeHandler(D, "resize", k)
        /\ UNCHANGED <<sampler, autoResize, callerArray>>

\* an interval of setInterval(resizeHandler, interval) elapses
Auto_intervalTick(D) ==
    \E k \in autoResize.intervals :
        /\ resizeHandler(D, "interval", k)
        /\ UNCHANGED <<sampler, autoResize, callerArray>>

\* the timeout of setTimeout(() => resizeHandler(), AUTO_RESIZE_INITIAL_DELAY)
\* elapses
Auto_initialRefresh(D) ==
    \E k \in autoResize.timeouts :
        /\ resizeHandler(D, "timeout", k)
        /\ autoResize' = [autoResize EXCEPT !.timeouts = @ \ {k}]
        /\ UNCHANGED <<sampler, callerArray>>

NextResize ==
    \/ Chart_enableAutoResize
    \/ Chart_disableAutoResize
    \/ Auto_resizeEvent(ResizeDomain)
    \/ Auto_intervalTick(ResizeDomain)
    \/ Auto_initialRefresh(ResizeDomain)

InitResize == InitChart(ResizeDomain) /\ sampler = SamplerIdle /\ autoResize = AutoResizeOff
SpecResize == InitResize /\ [][NextResize]_vars

Init == InitChart(DataDomain) /\ sampler = SamplerIdle /\ autoResize = AutoResizeOff
Next == NextChart(DataDomain)
Spec == Init /\ [][Next]_vars

InitHeight == InitChart(HeightDomain) /\ sampler = SamplerIdle /\ autoResize = AutoResizeOff
NextHeight == NextChart(HeightDomain)
SpecHeight == InitHeight /\ [][NextHeight]_vars

\* candle arrays and candles as a caller may pass them: validateCandle accepts
\* negative prices, and updateCandles takes any candle
FiveNegative == [k \in 1..MIN_CANDLES |-> Candle(0 - 2, 0 - 1, 0 - 3, 0 - 2, <<1>>)]

InputDomain ==
    [initial |-> {FiveCandles, FiveNegative}, columns |-> {FALLBACK_WIDTH},
     pool |-> {Candle(5, 1, 9, 5, <<>>),           \* high < open, low > close
               Candle(2, 2, 2, 2, <<0 - 4>>)},     \* negative volume
     maxLen |-> MaxCandles, maxAppend |-> 1,
     widths |-> {15}, heights |-> {10},
     margins |-> {DefaultMargins},
     vpHeights |-> {1}, enabled |-> {TRUE},
     modes |-> {"fit"},
     timePairs |-> {<<0, 1>>},
     pricePairs |-> {<<2, 3>>, <<3, 3>>}]

InitInput == InitChart(InputDomain) /\ sampler = SamplerIdle /\ autoResize = AutoResizeOff
NextInput == NextChart(InputDomain)
SpecInput == InitInput /\ [][NextInput]_vars

InitTime == InitChart(TimeDomain) /\ sampler = SamplerIdle /\ autoResize = AutoResizeOff
NextTime == NextChart(TimeDomain)
SpecTime == InitTime /\ [][NextTime]_vars

(***************************************************************************)
(* The ChartData of a chart used directly (chart.chartData is a public     *)
(* field): addCandles, resetCandles, setSize and computeVisibleCandles as  *)
(* calls of their own, next to the calls of the Chart.                     *)
(***************************************************************************)
DirectDomain ==
    [initial |-> {FiveCandles}, columns |-> {FALLBACK_WIDTH},
     pool |-> {Candle(1, 3, 1, 2, <<2>>), Candle(5, 5, 3, 4, <<>>)},
     maxLen |-> 2, maxAppend |-> 1,
     widths |-> {10, 15}, heights |-> {10},
     margins |-> {DefaultMargins},
     vpHeights |-> {1}, enabled |-> {TRUE},
     modes |-> {"fit", "fixed", "price"},
     timePairs |-> {<<0, 0>>},
     pricePairs |-> {<<2, 3>>, <<3, 3>>}]

\* chartData.addCandles(candles)
ChartData_addCandles(D) ==
    \E candles \in SeqsUpTo(D.pool, D.maxAppend) :
        /\ Len(mainCandleSet.candles) + Len(candles) <= D.maxLen
        /\ Becomes(addCandles(CD, candles), "ChartData.addCandles", <<>>, "none")
        /\ callerArray' = pushInto(callerArray, addCandles(CD, candles).mainCandleSet)
        /\ UNCHANGED <<volumePane, sampler, autoResize>>

\* chartData.resetCandles()
ChartData_resetCandles ==
    /\ Becomes(resetCandles(CD), "ChartData.resetCandles", <<>>, "none")
    /\ callerArray' = rebound(callerArray)
    /\ UNCHANGED <<volumePane, sampler, autoResize>>

\* chartData.setSize(width, height)
ChartData_setSize(D) ==
    \E w \in D.widths, h \in D.heights :
        /\ Becomes(setSize(CD, w, h), "ChartData.setSize", <<>>, "none")
        /\ UNCHANGED <<volumePane, sampler, autoResize, callerArray>>

\* chartData.computeVisibleCandles()
ChartData_computeVisibleCandles ==
    /\ Becomes(computeVisibleCandles(CD), "ChartData.computeVisibleCandles", <<>>,
               TypeErrorIf(computeVisibleThrows(CD)))
    /\ UNCHANGED <<volumePane, sampler, autoResize, callerArray>>

NextData ==
    \/ NextChart(DirectDomain)
    \/ ChartData_addCandles(DirectDomain)
    \/ ChartData_resetCandles
    \/ ChartData_setSize(DirectDomain)
    \/ ChartData_computeVisibleCandles

InitData == InitChart(DirectDomain) /\ sampler = SamplerIdle /\ autoResize = AutoResizeOff
SpecData == InitData /\ [][NextData]_vars

(***************************************************************************)
(* A chart whose main set may grow beyond the array it was constructed     *)
(* from, so that candles can be appended to what the constructor was given.*)
(***************************************************************************)
AppendDomain ==
    [initial |-> {FiveCandles}, columns |-> {FALLBACK_WIDTH},
     pool |-> {Candle(5, 5, 3, 4, <<>>)},
     maxLen |-> MIN_CANDLES + MaxAppend, maxAppend |-> MaxAppend,
     widths |-> {15}, heights |-> {10},
     margins |-> {DefaultMargins},
     vpHeights |-> {1}, enabled |-> {TRUE},
     modes |-> {"fit", "fixed"},
     timePairs |-> {<<0, 1>>},
     pricePairs |-> {<<2, 3>>}]

NextAppend ==
    \/ NextChart(AppendDomain)
    \/ ChartData_addCandles(AppendDomain)
    \/ ChartData_resetCandles

InitAppend == InitChart(AppendDomain) /\ sampler = SamplerIdle /\ autoResize = AutoResizeOff
SpecAppend == InitAppend /\ [][NextAppend]_vars

(***************************************************************************)
(* One run of a sampling routine on a sequence of distinct candles.  A     *)
(* candle is named by its index in the input, so the sampled list reads as *)
(* a list of input indices; UndefinedTag is a read past the end.           *)
(* ChartRenderer.sampleCandles runs pass by pass: the stride pass (lines   *)
(* 1618-1627), the gap-fill pass (1628-1630) and the truncation (1631).    *)
(***************************************************************************)
UndefinedTag == 0 - 1

Tags(n) == [k \in 1..n |-> k - 1]

InitSampler ==
    \E n \in 0..MaxSample, target \in (0 - NegTargets)..MaxSample,
       routine \in {"sampleCandles", "sampleCandlesForWidth"} :
        sampler = [pc |-> "called", routine |-> routine, candles |-> Tags(n),
                   target |-> target, sampled |-> <<>>]

\* if (candles.length <= targetCount) return candles  (either routine)
Sampler_returnAll ==
    /\ sampler.pc = "called"
    /\ Len(sampler.candles) <= sampler.target
    /\ sampler' = [sampler EXCEPT !.pc = "returned", !.sampled = sampler.candles]
    /\ UNCHANGED <<chartVars, autoResize, callerArray>>

\* ChartData.sampleCandlesForWidth past its early return
Sampler_forWidth ==
    /\ sampler.pc = "called"
    /\ sampler.routine = "sampleCandlesForWidth"
    /\ Len(sampler.candles) > sampler.target
    /\ sampler' = [sampler EXCEPT
                      !.pc = "returned",
                      !.sampled = sampleCandlesForWidth(sampler.candles, sampler.target,
                                                        UndefinedTag)]
    /\ UNCHANGED <<chartVars, autoResize, callerArray>>

\* ChartRenderer.sampleCandles: first candle, stride loop, last candle
Sampler_stride ==
    /\ sampler.pc = "called"
    /\ sampler.routine = "sampleCandles"
    /\ Len(sampler.candles) > sampler.target
    /\ sampler' = [sampler EXCEPT
                      !.pc = "strided",
                      !.sampled = stridePass(sampler.candles, sampler.target, UndefinedTag)]
    /\ UNCHANGED <<chartVars, autoResize, callerArray>>

\* ChartRenderer.sampleCandles: fillRemainingCandles when short of the target
Sampler_fill ==
    /\ sampler.pc = "strided"
    /\ sampler' = [sampler EXCEPT
                      !.pc = "filled",
                      !.sampled = fillPass(sampler.sampled, sampler.candles, sampler.target)]
    /\ UNCHANGED <<chartVars, autoResize, callerArray>>

\* ChartRenderer.sampleCandles: return sampled.slice(0, targetCount)
Sampler_truncate ==
    /\ sampler.pc = "filled"
    /\ sampler' = [sampler EXCEPT
                      !.pc = "returned",
                      !.sampled = slice(sampler.sampled, 0, sampler.target)]
    /\ UNCHANGED <<chartVars, autoResize, callerArray>>

NextSample ==
    \/ Sampler_returnAll
    \/ Sampler_forWidth
    \/ Sampler_stride
    \/ Sampler_fill
    \/ Sampler_truncate

InitSample == InitChart(HeightDomain) /\ InitSampler /\ autoResize = AutoResizeOff
SpecSample == InitSample /\ [][NextSample]_vars

(***************************************************************************)
(* The glyph functions, each applied once to arguments drawn in the        *)
(* initial state: lastCall.args holds the arguments, returned the result.  *)
(* Heights are given in quarters of a row, which puts them on, below and   *)
(* above the thresholds 0.25 and 0.75.                                     *)
(***************************************************************************)
MaxQuarter == 8
MaxEighth == 16
MaxSpread == 2
MaxAxisRows == 4
MaxRow == 2
MaxPane == 3
MaxVolume == 3

\* the chart the functions belong to
PartsDomain ==
    [initial |-> {FiveCandles}, widths |-> {FALLBACK_WIDTH}, heights |-> {FALLBACK_HEIGHT}]

\* determineCandleCharacter(heightUnit, highY, lowY, maxY, minY), the four
\* heights in quarters
GlyphInputs == (0..MaxRow) \X (0..MaxQuarter) \X (0..MaxQuarter) \X (0..MaxQuarter)
                   \X (0..MaxQuarter)

\* renderUpperCandlePart(heightUnit, highY, maxY), the two heights in eighths:
\* differences strictly between 0.75 and 1 occur
UpperInputs == (0..MaxRow) \X (0..MaxEighth) \X (0..MaxEighth)

\* an axis over the prices minPrice..maxPrice on `height` rows and
\* renderPrice(y, { target: color }), the target in two-hundredths
PriceInputs ==
    { <<minPrice, maxPrice, h, y, target>> :
        minPrice \in 0..1, maxPrice \in 0..MaxSpread, h \in 1..MaxAxisRows,
        y \in 1..MaxAxisRows, target \in 0..(200 * MaxSpread + 2) }

\* a pane [height, unicodeFill] and render(candle, y, maxVolume), the candle
\* given by its volume
VolumeInputs ==
    { <<h, fill, volume, y, maxVolume>> :
        h \in 1..MaxPane, fill \in {UNICODE_FILL, "#"},
        volume \in {<<>>} \cup {<<v>> : v \in 0..MaxVolume},
        y \in 1..MaxPane, maxVolume \in 0..MaxVolume }

InitParts ==
    /\ sampler = SamplerIdle /\ autoResize = AutoResizeOff
    /\ NewChart(PartsDomain,
                { [op |-> "call determineCandleCharacter", args |-> args, threw |-> "none"] :
                    args \in GlyphInputs }
                \cup
                { [op |-> "call VolumePane.render", args |-> args, threw |-> "none"] :
                    args \in VolumeInputs }
                \cup
                { [op |-> "call renderUpperCandlePart", args |-> args, threw |-> "none"] :
                    args \in UpperInputs }
                \cup
                { [op |-> "call renderPrice", args |-> args, threw |-> "none"] :
                    args \in {a \in PriceInputs : a[1] <= a[2] /\ a[4] <= a[3]} })

Parts_determineCandleCharacter ==
    /\ lastCall.op = "call determineCandleCharacter"
    /\ lastCall' = [lastCall EXCEPT !.op = "determineCandleCharacter"]
    /\ returned' = <<determineCandleCharacter(lastCall.args[1],
                                              Frac(lastCall.args[2], 4),
                                              Frac(lastCall.args[3], 4),
                                              Frac(lastCall.args[4], 4),
                                              Frac(lastCall.args[5], 4))>>
    /\ UNCHANGED <<mainCandleSet, visibleCandleSet, terminalSize, width, height, margins,
                   scalingMode, timeRange, priceRange, volumePane, sampler,
                   autoResize, callerArray>>

Parts_VolumePane_render ==
    /\ lastCall.op = "call VolumePane.render"
    /\ lastCall' = [lastCall EXCEPT !.op = "VolumePane.render"]
    /\ returned' = <<VolumePane_render([height |-> lastCall.args[1],
                                        unicodeFill |-> lastCall.args[2]],
                                       Candle(1, 1, 1, 1, lastCall.args[3]),
                                       lastCall.args[4], lastCall.args[5])>>
    /\ UNCHANGED <<mainCandleSet, visibleCandleSet, terminalSize, width, height, margins,
                   scalingMode, timeRange, priceRange, volumePane, sampler,
                   autoResize, callerArray>>

Parts_renderUpperCandlePart ==
    /\ lastCall.op = "call renderUpperCandlePart"
    /\ lastCall' = [lastCall EXCEPT !.op = "renderUpperCandlePart"]
    /\ returned' = <<renderUpperCandlePart(lastCall.args[1],
                                           Frac(lastCall.args[2], 8),
                                           Frac(lastCall.args[3], 8))>>
    /\ UNCHANGED <<mainCandleSet, visibleCandleSet, terminalSize, width, height, margins,
                   scalingMode, timeRange, priceRange, volumePane, sampler,
                   autoResize, callerArray>>

\* the chart data an axis reads: the visible extremes and the height
AxisData(minPrice, maxPrice, h) ==
    [visibleCandleSet |-> [minPrice |-> minPrice, maxPrice |-> maxPrice], height |-> h]

Parts_renderPrice ==
    /\ lastCall.op = "call renderPrice"
    /\ lastCall' = [lastCall EXCEPT !.op = "renderPrice"]
    /\ returned' = renderPrice(AxisData(lastCall.args[1], lastCall.args[2], lastCall.args[3]),
                               lastCall.args[4], <<lastCall.args[5]>>)
    /\ UNCHANGED <<mainCandleSet, visibleCandleSet, terminalSize, width, height, margins,
                   scalingMode, timeRange, priceRange, volumePane, sampler,
                   autoResize, callerArray>>

NextParts ==
    \/ Parts_renderPrice
    \/ Parts_determineCandleCharacter
    \/ Parts_VolumePane_render
    \/ Parts_renderUpperCandlePart

SpecParts == InitParts /\ [][NextParts]_vars

(***************************************************************************)
(* Statistics computed from scratch, by their definitions: the extremes as *)
(* the bounds of a set, the sums index by index.                           *)
(***************************************************************************)
Highest(S) == CHOOSE x \in S : \A y \in S : y <= x

Lowest(S) == CHOOSE x \in S : \A y \in S : x <= y

RECURSIVE SumOver(_, _)
SumOver(f, S) ==
    IF S = {} THEN 0
    ELSE LET k == CHOOSE x \in S : TRUE IN f[k] + SumOver(f, S \ {k})

AllCandles(candles) == \A k \in 1..Len(candles) : IsCandle(candles[k])

WithVolume(candles) == {k \in 1..Len(candles) : candles[k].volume # <<>>}

StatsFromScratch(candles) ==
    LET n == Len(candles)
        highs == {candles[k].high : k \in 1..n}
        lows == {candles[k].low : k \in 1..n}
        vols == {candles[k].volume[1] : k \in WithVolume(candles)}
    IN  IF n = 0
        THEN [minPrice |-> 0, maxPrice |-> 0, minVolume |-> 0, maxVolume |-> 0,
              variation |-> <<0, 1>>, average |-> <<0, 1>>, lastPrice |-> 0,
              cumulativeVolume |-> 0]
        ELSE [minPrice |-> Lowest(highs \cup lows),
              maxPrice |-> Highest(highs \cup lows),
              minVolume |-> IF vols = {} THEN 0 ELSE Lowest(vols),
              maxVolume |-> IF vols = {} THEN 0 ELSE Highest(vols),
              variation |-> <<(candles[n].close - candles[1].open) * 100, candles[1].open>>,
              average |-> <<SumOver([k \in 1..n |-> candles[k].high + candles[k].low], 1..n),
                            2 * n>>,
              lastPrice |-> candles[n].close,
              cumulativeVolume |->
                  SumOver([k \in WithVolume(candles) |-> candles[k].volume[1]],
                          WithVolume(candles))]

\* C1: after any sequence of constructions, appends and replacements, the
\* eight statistics of a candle set (the main one and the visible one) equal
\* the statistics computed from scratch from the candles it holds; with no
\* candles all eight are 0.
C1_StatsFromScratch ==
    \A cs \in {mainCandleSet, visibleCandleSet} :
        AllCandles(cs.candles) => getStats(cs) = StatsFromScratch(cs.candles)

\* An append has grown the main set to two candles or more while the visible
\* set holds a different, non-empty sequence.
C1_Witness ==
    /\ lastCall.op = "updateCandles"
    /\ Len(mainCandleSet.candles) >= 2
    /\ Len(visibleCandleSet.candles) >= 1
    /\ visibleCandleSet.candles # mainCandleSet.candles
    /\ mainCandleSet.cumulativeVolume > 0
    /\ visibleCandleSet.maxPrice # mainCandleSet.maxPrice

\* C2: for a non-empty candle sequence maxPrice is the greatest high,
\* minPrice the least low, and cumulativeVolume the sum of the volumes of
\* the candles that have one (0 when none has).
C2_Extremes ==
    \A cs \in {mainCandleSet, visibleCandleSet} :
        (Len(cs.candles) >= 1 /\ AllCandles(cs.candles)) =>
            /\ cs.maxPrice = Highest({cs.candles[k].high : k \in 1..Len(cs.candles)})
            /\ cs.minPrice = Lowest({cs.candles[k].low : k \in 1..Len(cs.candles)})
            /\ cs.cumulativeVolume =
                   SumOver([k \in WithVolume(cs.candles) |-> cs.candles[k].volume[1]],
                           WithVolume(cs.candles))

\* The main set holds candles with and without a volume, and its extremes
\* come from different candles.
C2_Witness ==
    /\ Len(mainCandleSet.candles) >= 2
    /\ WithVolume(mainCandleSet.candles) # {}
    /\ WithVolume(mainCandleSet.candles) # 1..Len(mainCandleSet.candles)
    /\ mainCandleSet.cumulativeVolume > 0
    /\ \E i, j \in 1..Len(mainCandleSet.candles) :
           /\ i # j
           /\ mainCandleSet.candles[i].high = mainCandleSet.maxPrice
           /\ mainCandleSet.candles[i].low # mainCandleSet.minPrice
           /\ mainCandleSet.candles[j].low = mainCandleSet.minPrice

\* C24: updateCandles(c, false) makes the main sequence the old one followed
\* by c, updateCandles(c, true) makes it exactly c; when the call returns
\* the visible set is the one derived from the new main sequence and the
\* statistics of both sets are those of the candles they hold.
C24_UpdateCandles ==
    [][lastCall'.op = "updateCandles" =>
          LET c == lastCall'.args[1]
              reset == lastCall'.args[2]
          IN  /\ mainCandleSet'.candles = IF reset THEN c ELSE mainCandleSet.candles \o c
              /\ getStats(mainCandleSet') = StatsFromScratch(mainCandleSet'.candles)
              /\ lastCall'.threw = "none" =>
                     /\ visibleCandleSet'.candles = visibleCandlesOf(CD')
                     /\ getStats(visibleCandleSet')
                            = StatsFromScratch(visibleCandleSet'.candles)]_vars

\* an append of one candle to a non-empty main set that changes its
\* extremes, and a replacement by one candle
C24_Witness ==
    /\ lastCall.op = "updateCandles" /\ lastCall.threw = "none"
    /\ ~lastCall.args[2]
    /\ Len(lastCall.args[1]) = 1
    /\ Len(mainCandleSet.candles) >= 2
    /\ mainCandleSet.candles[1] # lastCall.args[1][1]
    /\ mainCandleSet.maxPrice = lastCall.args[1][1].high
    /\ \A k \in 1..(Len(mainCandleSet.candles) - 1) :
           mainCandleSet.candles[k].high < mainCandleSet.maxPrice
    /\ Len(visibleCandleSet.candles) >= 1

C24_WitnessReset ==
    /\ lastCall.op = "updateCandles" /\ lastCall.threw = "none"
    /\ lastCall.args[2]
    /\ Len(lastCall.args[1]) = 1
    /\ mainCandleSet.candles = lastCall.args[1]
    /\ visibleCandleSet.candles = lastCall.args[1]

(***************************************************************************)
(* Scaling modes.                                                          *)
(***************************************************************************)
\* C5: in fit mode the visible set is the whole main sequence when it has at
\* most availableWidth candles, and the sampling of the main sequence to
\* availableWidth otherwise, availableWidth being width - WIDTH - left - right.
C5_FitSamples ==
    scalingMode = "fit" =>
        LET aw == width - WIDTH - margins.left - margins.right
        IN  visibleCandleSet.candles =
                IF Len(mainCandleSet.candles) <= aw THEN mainCandleSet.candles
                ELSE sampleCandlesForWidth(mainCandleSet.candles, aw, UndefinedCandle)

InWindow(candle) ==
    /\ (IF candle.open < candle.close THEN candle.open ELSE candle.close) <= priceRange[2]
    /\ (IF candle.open > candle.close THEN candle.open ELSE candle.close) >= priceRange[1]

\* C6: in price mode with a price range [min, max] the visible set is the
\* main set's candles with min(open, close) <= max and max(open, close) >=
\* min, all of them and no other, in their original order.
C6_PriceFilter ==
    (scalingMode = "price" /\ priceRange # <<>>) =>
        visibleCandleSet.candles = SelectSeq(mainCandleSet.candles, InWindow)

\* Price mode with a window that keeps some candles and drops others, one
\* of the kept touching the window only at its boundary.
C6_Witness ==
    /\ scalingMode = "price"
    /\ priceRange # <<>>
    /\ Len(visibleCandleSet.candles) >= 1
    /\ Len(visibleCandleSet.candles) < Len(mainCandleSet.candles)
    /\ \E k \in 1..Len(visibleCandleSet.candles) :
           \/ Min2(visibleCandleSet.candles[k].open, visibleCandleSet.candles[k].close)
                  = priceRange[2]
           \/ Max2(visibleCandleSet.candles[k].open, visibleCandleSet.candles[k].close)
                  = priceRange[1]

\* C7: setPriceRange(min, max) fails for every pair with min >= max, min =
\* max included, and the failed call leaves the stored price range, the
\* scaling mode and the visible candle set as they were; every other call
\* has stored its range, and that range has min < max.
C7_RejectsEmptyWindow ==
    [][lastCall'.op = "setPriceRange" =>
          IF lastCall'.threw = "Error"
          THEN /\ lastCall'.args[1] >= lastCall'.args[2]
               /\ UNCHANGED <<priceRange, scalingMode, visibleCandleSet, mainCandleSet>>
          ELSE priceRange' # <<>> /\ priceRange'[1] < priceRange'[2]]_vars

\* setPriceRange(m, m) has just failed on a chart in price mode that had a
\* price range and a non-empty visible set.
C7_Witness ==
    /\ lastCall.op = "setPriceRange"
    /\ lastCall.threw = "Error"
    /\ lastCall.args[1] = lastCall.args[2]
    /\ priceRange # <<>>
    /\ scalingMode = "price"
    /\ Len(visibleCandleSet.candles) >= 1

\* C8: in fixed mode with a time range 0 <= start <= end < length the
\* visible set is the main set's candles at indices start..end inclusive:
\* end - start + 1 candles in their original order.
C8_FixedWindow ==
    (/\ scalingMode = "fixed"
     /\ timeRange # <<>>
     /\ 0 <= timeRange[1]
     /\ timeRange[1] <= timeRange[2]
     /\ timeRange[2] < Len(mainCandleSet.candles)) =>
        visibleCandleSet.candles =
            [k \in 1..(timeRange[2] - timeRange[1] + 1) |->
                mainCandleSet.candles[timeRange[1] + k]]

\* Fixed mode with a valid range that starts after the first candle and ends
\* before the last one.
C8_Witness ==
    /\ scalingMode = "fixed"
    /\ timeRange # <<>>
    /\ 1 <= timeRange[1]
    /\ timeRange[1] < timeRange[2]
    /\ timeRange[2] < Len(mainCandleSet.candles) - 1
    /\ Len(visibleCandleSet.candles) = timeRange[2] - timeRange[1] + 1

\* C9: chart.setTimeRange(start, end) with start < 0, start >= length,
\* end >= length or start > end, length being that of the main set, raises
\* an error and does not store the range.
C9_RejectsInvalidRange ==
    [][(/\ lastCall'.op = "setTimeRange"
        /\ \/ lastCall'.args[1] < 0
           \/ lastCall'.args[1] >= Len(mainCandleSet.candles)
           \/ lastCall'.args[2] >= Len(mainCandleSet.candles)
           \/ lastCall'.args[1] > lastCall'.args[2])
          => (lastCall'.threw # "none" /\ timeRange' = timeRange)]_vars

\* C10: once the height is computed for a volume pane of height v,
\* height = max(terminal height - top margin - v - 2, 10), the top margin
\* being the one of the chart's margins.
C10_HeightFromMargins ==
    lastCall.op = "render" =>
        height = Max2(terminalSize.height - margins.top - volumePane.height - 2, 10)

\* C11: in every state reached when updateSize (setSize) or
\* setVolumePaneHeight has returned, the chart height equals the height
\* formula of computeHeight on the current terminal height and the current
\* volume pane height.
C11_HeightRecomputed ==
    (lastCall.op \in {"updateSize", "setVolumePaneHeight"} /\ lastCall.threw = "none") =>
        height = Max2(terminalSize.height - MARGIN_TOP - volumePane.height - HEIGHT_OFFSET,
                      MIN_HEIGHT)

Sampled == Len(sampler.candles) > sampler.target

KeepsEndpoints ==
    /\ Len(sampler.sampled) >= 1
    /\ sampler.sampled[1] = sampler.candles[1]
    /\ sampler.sampled[Len(sampler.sampled)] = sampler.candles[Len(sampler.candles)]

\* C3 as stated: for a candle sequence longer than the target count, the
\* sampled list starts with the first input candle and ends with the last
\* one after the stride pass, after the gap-fill pass and after the final
\* truncation.
C3_EndpointsAlways ==
    (Sampled /\ Len(sampler.candles) >= 1 /\ sampler.pc \in {"strided", "filled", "returned"})
        => KeepsEndpoints

\* C3: for a candle sequence longer than the target count, the sampled list
\* starts with the first input candle and ends with the last one after the
\* stride pass and after the gap-fill pass; after the final truncation of
\* ChartRenderer.sampleCandles it does so when the target count is at least
\* 2, and the result of ChartData.sampleCandlesForWidth does so for every
\* available width.
C3_EndpointsFromTwo ==
    (/\ Sampled
     /\ Len(sampler.candles) >= 1
     /\ \/ sampler.pc \in {"strided", "filled"}
        \/ sampler.pc = "returned" /\ sampler.routine = "sampleCandlesForWidth"
        \/ sampler.pc = "returned" /\ sampler.target >= 2)
        => KeepsEndpoints

\* A run of sampleCandles that strode, filled a gap and truncated, and still
\* returned fewer candles than it was given, endpoints included.
C3_Witness ==
    /\ sampler.routine = "sampleCandles"
    /\ sampler.pc = "returned"
    /\ Sampled
    /\ sampler.target >= 2
    /\ Len(sampler.sampled) < Len(sampler.candles)
    /\ Len(sampler.sampled) >
           Len(slice(stridePass(sampler.candles, sampler.target, UndefinedTag),
                     0, sampler.target))
    /\ KeepsEndpoints

\* C4: the output of a sampling routine, for a sequence longer than the
\* target count, is a subsequence of the input taken at strictly increasing
\* indices: every element is an input candle and each comes later in the
\* input than the one before it.
C4_IncreasingSubsequence ==
    (Sampled /\ sampler.pc = "returned") =>
        /\ \A k \in 1..Len(sampler.sampled) :
               includes(sampler.candles, sampler.sampled[k])
        /\ \A k \in 1..(Len(sampler.sampled) - 1) :
               indexOf(sampler.candles, sampler.sampled[k])
                   < indexOf(sampler.candles, sampler.sampled[k + 1])

\* C26: for a candle sequence longer than targetCount, sampleCandles
\* returns exactly targetCount candles: the gap-fill pass makes up what the
\* stride pass left short, and the result never has more.
C26_ExactlyTarget ==
    (/\ sampler.routine = "sampleCandles"
     /\ sampler.pc = "returned"
     /\ sampler.target >= 0
     /\ Len(sampler.candles) > sampler.target)
        => Len(sampler.sampled) = sampler.target

\* the upper half of it: never more than targetCount
C26_AtMostTarget ==
    (/\ sampler.routine = "sampleCandles"
     /\ sampler.pc = "returned"
     /\ sampler.target >= 0
     /\ Len(sampler.candles) > sampler.target)
        => Len(sampler.sampled) <= sampler.target

\* C27: in every state reachable through the chart's operations a stored
\* fixed-mode time range satisfies 0 <= start <= end < length of the main
\* set, so that the fixed-mode visible set has end - start + 1 candles.
C27_StoredRangeValid ==
    (scalingMode = "fixed" /\ timeRange # <<>>) =>
        /\ 0 <= timeRange[1]
        /\ timeRange[1] <= timeRange[2]
        /\ timeRange[2] < Len(mainCandleSet.candles)

\* the part of it about updateCandles alone: a range that is valid before
\* the call is valid for the main set the call leaves behind
C27_UpdateKeepsRangeValid ==
    [][(/\ lastCall'.op = "updateCandles"
        /\ lastCall'.args[1] # <<>>
        /\ scalingMode = "fixed"
        /\ timeRange # <<>>
        /\ 0 <= timeRange[1]
        /\ timeRange[1] <= timeRange[2]
        /\ timeRange[2] < Len(mainCandleSet.candles))
          => (timeRange' # <<>> /\ timeRange'[2] < Len(mainCandleSet'.candles))]_vars

\* the consequence it draws: the fixed-mode visible set has end - start + 1
\* candles
C27_FixedCount ==
    (scalingMode = "fixed" /\ timeRange # <<>>) =>
        Len(visibleCandleSet.candles) = timeRange[2] - timeRange[1] + 1

\* the number of glyphs of the given kind a render emitted for row y: the
\* glyph columns of that row
GlyphColumns(kind, y) ==
    Cardinality({k \in DOMAIN returned : returned[k].kind = kind /\ returned[k].y = y})

\* every price row and every volume row of the last render has at most n
\* glyph columns
RowsWithin(n) ==
    /\ \A y \in 1..height : GlyphColumns("candle", y) <= n
    /\ volumePane.enabled =>
           \A y \in 1..volumePane.height : GlyphColumns("volume", y) <= n

\* C28: in every rendered price or volume row the number of candle glyph
\* columns is at most the available candle width, the terminal's width
\* minus the axis width and the right margin, whatever the size of the
\* candle set.
C28_ColumnsFitWidth ==
    (lastCall.op = "render" /\ lastCall.threw = "none") =>
        RowsWithin(lastCall.args[1] - WIDTH - MARGIN_RIGHT)

\* the same with the chart's own width as the total width
C28_ColumnsFitChartWidth ==
    (lastCall.op = "render" /\ lastCall.threw = "none") =>
        RowsWithin(width - WIDTH - MARGIN_RIGHT)

\* what the render does keep to: twice the available width of the terminal
C28_ColumnsFitTwiceWidth ==
    (lastCall.op = "render" /\ lastCall.threw = "none") =>
        RowsWithin(2 * (lastCall.args[1] - WIDTH - MARGIN_RIGHT))

\* C29: chart.updateCandles(newCandles) without reset, and addCandles, leave
\* the array that was handed to the constructor as it was: same length, same
\* elements.
C29_CallerArrayUnchanged ==
    [][(\/ lastCall'.op = "updateCandles" /\ ~lastCall'.args[2]
        \/ lastCall'.op = "ChartData.addCandles")
          => callerArray'.candles = callerArray.candles]_vars

\* what does hold: the caller's array is never shortened or reordered, and
\* once the main set was reset it is not touched again
C29_CallerArrayGrowsOnly ==
    [][/\ Len(callerArray'.candles) >= Len(callerArray.candles)
       /\ SubSeq(callerArray'.candles, 1, Len(callerArray.candles)) = callerArray.candles
       /\ ~callerArray.shared => callerArray' = callerArray]_vars

\* while the main set holds the constructor's array the two have the same
\* elements
C29_SharedArrayIsMainSet ==
    callerArray.shared => callerArray.candles = mainCandleSet.candles

\* C30: for a candle with lowY <= bodyBottomY <= bodyTopY <= highY and a row
\* y, if y > ceil(highY) or y < floor(lowY) then determineCandleCharacter
\* returns the void glyph: nothing is drawn on a row outside the candle's
\* low-to-high extent.
C30_VoidOutsideExtent ==
    (/\ lastCall.op = "determineCandleCharacter"
     /\ lastCall.args[3] <= lastCall.args[5]
     /\ lastCall.args[5] <= lastCall.args[4]
     /\ lastCall.args[4] <= lastCall.args[2]
     /\ \/ lastCall.args[1] > ceil(Frac(lastCall.args[2], 4))
        \/ lastCall.args[1] < floor(Frac(lastCall.args[3], 4)))
        => returned = <<UNICODE_VOID>>

\* a row above the high of a consistent candle with wicks and a body
C30_Witness ==
    /\ lastCall.op = "determineCandleCharacter"
    /\ lastCall.args[3] < lastCall.args[5]
    /\ lastCall.args[5] < lastCall.args[4]
    /\ lastCall.args[4] < lastCall.args[2]
    /\ lastCall.args[1] > ceil(Frac(lastCall.args[2], 4))
    /\ returned = <<UNICODE_VOID>>

\* a row below the low of a consistent candle
C30_WitnessBelow ==
    /\ lastCall.op = "determineCandleCharacter"
    /\ lastCall.args[3] <= lastCall.args[5]
    /\ lastCall.args[5] <= lastCall.args[4]
    /\ lastCall.args[4] <= lastCall.args[2]
    /\ lastCall.args[1] < floor(Frac(lastCall.args[3], 4))
    /\ returned = <<UNICODE_VOID>>

\* C13: for every candle of the visible set, priceToHeights returns four
\* finite values [highY, lowY, bodyTopY, bodyBottomY] inside [0, height];
\* in particular a visible set whose maxPrice equals its minPrice divides
\* by 1 and not by zero.
C13_HeightsInRange ==
    \A k \in 1..Len(visibleCandleSet.candles) :
        LET ys == priceToHeights(CD, visibleCandleSet.candles[k])
        IN  IsCandle(visibleCandleSet.candles[k]) => \A i \in 1..4 :
                /\ ys[i][2] > 0
                /\ 0 <= ys[i][1]
                /\ ys[i][1] <= height * ys[i][2]

\* a render of a chart whose visible candles all share one price
C13_Witness ==
    /\ lastCall.op = "render" /\ lastCall.threw = "none"
    /\ Len(visibleCandleSet.candles) > 0
    /\ visibleCandleSet.maxPrice = visibleCandleSet.minPrice
    /\ \E k \in 1..Len(returned) : returned[k].kind = "candle"

\* a render of a chart whose visible candles spread over several prices
C13_WitnessSpread ==
    /\ lastCall.op = "render" /\ lastCall.threw = "none"
    /\ \E k \in 1..Len(visibleCandleSet.candles) :
           LET ys == priceToHeights(CD, visibleCandleSet.candles[k])
           IN  IsCandle(visibleCandleSet.candles[k]) /\ ys[1][1] = height * ys[1][2] /\ ys[4][1] > 0 /\ ys[4][2] > 1
(***************************************************************************)
(* Glyphs.                                                                 *)
(***************************************************************************)
Glyphs ==
    {UNICODE_BODY, UNICODE_WICK_UPPER, UNICODE_WICK_LOWER, UNICODE_WICK, UNICODE_TOP,
     UNICODE_BOTTOM, UNICODE_HALF_BODY_TOP, UNICODE_HALF_BODY_BOTTOM, UNICODE_VOID}

\* C14: determineCandleCharacter returns one glyph of the nine (full body,
\* upper wick, lower wick, wick, top cap, bottom cap, half body top, half
\* body bottom, void) for every combination of row, highY, lowY, bodyTopY and
\* bodyBottomY, consistent or not.
C14_GlyphTotal ==
    lastCall.op = "determineCandleCharacter" =>
        Len(returned) = 1 /\ returned[1] \in Glyphs

\* a combination no candle produces (the low above the high, the body
\* bottom above the body top) that runs through the lower zone to its last
\* return
C14_Witness ==
    /\ lastCall.op = "determineCandleCharacter"
    /\ lastCall.args[3] > lastCall.args[2]
    /\ lastCall.args[5] > lastCall.args[4]
    /\ ~(ceil(Frac(lastCall.args[2], 4)) >= lastCall.args[1]
          /\ lastCall.args[1] >= floor(Frac(lastCall.args[4], 4)))
    /\ lastCall.args[3] >= 4 * lastCall.args[1] + 3
    /\ returned = <<UNICODE_VOID>>
\* the three conditions of determineCandleCharacter at the arguments of the
\* last call
UpperZone ==
    /\ ceil(Frac(lastCall.args[2], 4)) >= lastCall.args[1]
    /\ lastCall.args[1] >= floor(Frac(lastCall.args[4], 4))

LowerZone ==
    /\ ceil(Frac(lastCall.args[5], 4)) >= lastCall.args[1]
    /\ lastCall.args[1] >= floor(Frac(lastCall.args[3], 4))

FullBody ==
    /\ lastCall.args[4] >= 4 * lastCall.args[1]
    /\ lastCall.args[1] >= ceil(Frac(lastCall.args[5], 4))

\* C20: determineCandleCharacter decides by first match: the upper-zone
\* cascade when ceil(highY) >= y >= floor(bodyTopY); else the lower-zone
\* cascade when ceil(bodyBottomY) >= y >= floor(lowY); else the full body
\* when bodyTopY >= y >= ceil(bodyBottomY); else void.  A row in both zones
\* gets the glyph of the upper-zone cascade.
C20_FirstMatch ==
    lastCall.op = "determineCandleCharacter" =>
        LET y == lastCall.args[1]
            highY == Frac(lastCall.args[2], 4)
            lowY == Frac(lastCall.args[3], 4)
            bodyTopY == Frac(lastCall.args[4], 4)
            bodyBottomY == Frac(lastCall.args[5], 4)
        IN  /\ UpperZone => returned = <<renderUpperCandlePart(y, highY, bodyTopY)>>
            /\ (~UpperZone /\ LowerZone) =>
                   returned = <<renderLowerCandlePart(y, lowY, bodyBottomY)>>
            /\ (~UpperZone /\ ~LowerZone /\ FullBody) => returned = <<UNICODE_BODY>>
            /\ (~UpperZone /\ ~LowerZone /\ ~FullBody) => returned = <<UNICODE_VOID>>

\* a row of a consistent candle in both zones, on which the two cascades
\* disagree
C20_Witness ==
    /\ lastCall.op = "determineCandleCharacter"
    /\ lastCall.args[2] >= lastCall.args[4]
    /\ lastCall.args[4] >= lastCall.args[5]
    /\ lastCall.args[5] >= lastCall.args[3]
    /\ UpperZone /\ LowerZone
    /\ renderUpperCandlePart(lastCall.args[1], Frac(lastCall.args[2], 4),
                             Frac(lastCall.args[4], 4))
           # renderLowerCandlePart(lastCall.args[1], Frac(lastCall.args[3], 4),
                                   Frac(lastCall.args[5], 4))

\* rows decided by the third and by the fourth case
C20_WitnessBody ==
    /\ lastCall.op = "determineCandleCharacter"
    /\ ~UpperZone /\ ~LowerZone /\ FullBody

C20_WitnessVoid ==
    /\ lastCall.op = "determineCandleCharacter"
    /\ lastCall.args[2] >= lastCall.args[4]
    /\ lastCall.args[4] >= lastCall.args[5]
    /\ lastCall.args[5] >= lastCall.args[3]
    /\ ~UpperZone /\ ~LowerZone /\ ~FullBody

\* C16: in the volume pane a candle without a volume renders void at every
\* row, and a candle whose volume is 0 renders void at every row except
\* possibly the lowest one, y = 1.
C16_VolumeVoid ==
    lastCall.op = "VolumePane.render" =>
        /\ lastCall.args[3] = <<>> => returned = <<UNICODE_VOID>>
        /\ (lastCall.args[3] = <<0>> /\ lastCall.args[4] # 1) => returned = <<UNICODE_VOID>>

\* a candle of volume 0 on the lowest row of a pane with the default fill,
\* where the glyph is the half block
C16_Witness ==
    /\ lastCall.op = "VolumePane.render"
    /\ lastCall.args[4] = 1
    /\ lastCall.args[2] = UNICODE_FILL
    /\ lastCall.args[3] = <<0>>
    /\ lastCall.args[5] > 0
    /\ returned = <<UNICODE_HALF_BODY_BOTTOM>>

\* how much of its cell a glyph fills: nothing, half a wick, a wick, half a
\* body, half a body and half a wick, a body
FillRank(glyph) ==
    CASE glyph = UNICODE_VOID -> 0
      [] glyph \in {UNICODE_WICK_UPPER, UNICODE_WICK_LOWER} -> 1
      [] glyph = UNICODE_WICK -> 2
      [] glyph \in {UNICODE_HALF_BODY_TOP, UNICODE_HALF_BODY_BOTTOM} -> 3
      [] glyph \in {UNICODE_TOP, UNICODE_BOTTOM} -> 4
      [] glyph = UNICODE_BODY -> 5

\* C21: with maxDiff = bodyTopY - y and highDiff = highY - y (in eighths
\* here, so 0.25 is 2 and 0.75 is 6), renderUpperCandlePart gives the full
\* body when maxDiff > 0.75; when 0.25 < maxDiff <= 0.75 the top cap if
\* highDiff > 0.75 and the half body bottom otherwise; when maxDiff <= 0.25
\* the wick if highDiff > 0.75, the upper wick if 0.25 < highDiff <= 0.75 and
\* void otherwise.  For a fixed highDiff a larger maxDiff never gives a less
\* filled glyph.
C21_UpperCascade ==
    lastCall.op = "renderUpperCandlePart" =>
        LET y == lastCall.args[1]
            highDiff == lastCall.args[2] - 8 * y
            maxDiff == lastCall.args[3] - 8 * y
        IN  /\ returned =
                   <<IF maxDiff > 6 THEN UNICODE_BODY
                     ELSE IF maxDiff > 2
                     THEN (IF highDiff > 6 THEN UNICODE_TOP ELSE UNICODE_HALF_BODY_BOTTOM)
                     ELSE IF highDiff > 6 THEN UNICODE_WICK
                     ELSE IF highDiff > 2 THEN UNICODE_WICK_UPPER
                     ELSE UNICODE_VOID>>
            /\ \A smaller \in 0..lastCall.args[3] :
                   FillRank(renderUpperCandlePart(y, Frac(lastCall.args[2], 8),
                                                  Frac(smaller, 8)))
                       <= FillRank(returned[1])

\* a row of the upper zone whose body top lies more than 0.75 and less than
\* one row above it: the full body
C21_Witness ==
    /\ lastCall.op = "renderUpperCandlePart"
    /\ lastCall.args[2] >= lastCall.args[3]
    /\ ceil(Frac(lastCall.args[2], 8)) >= lastCall.args[1]
    /\ lastCall.args[1] >= floor(Frac(lastCall.args[3], 8))
    /\ lastCall.args[3] - 8 * lastCall.args[1] = 7
    /\ returned = <<UNICODE_BODY>>

\* the price of row y of the axis of the last renderPrice call, in
\* hundredths: interpolated between minPrice at row 1 and maxPrice at the
\* top row
RowPrice(y) ==
    LET minPrice == lastCall.args[1]
        maxPrice == lastCall.args[2]
        h == lastCall.args[3]
    IN  IF h = 1 THEN 100 * maxPrice
        ELSE formatPrice(Frac(minPrice * (h - 1) + (y - 1) * (maxPrice - minPrice), h - 1))

\* C22: a highlight entry matches row y exactly when its target is within
\* 0.01 of the row's price, or the row's price <= target < the price of the
\* next row up (row y + 1; the top row has none).
C22_HighlightWindow ==
    lastCall.op = "renderPrice" =>
        LET y == lastCall.args[4]
            target == lastCall.args[5]
        IN  returned[1] <=>
                \/ target - 2 * RowPrice(y) < 2 /\ 2 * RowPrice(y) - target < 2
                \/ /\ y < lastCall.args[3]
                   /\ 2 * RowPrice(y) <= target
                   /\ target < 2 * RowPrice(y + 1)

\* the row's price is the interpolated one
C22_RowPriceInterpolated ==
    lastCall.op = "renderPrice" => returned[2] = RowPrice(lastCall.args[4])

\* C23: for a candle with a volume and a row y, with ratio = volume /
\* (maxVolume || 1) * paneHeight, the row is the fill glyph exactly when
\* y < ceil(ratio), that is y * (maxVolume || 1) < volume * paneHeight;
\* otherwise it is void, except that row 1 is the half block when the
\* default fill is in use.  The filled rows are the run 1 .. ceil(ratio) - 1:
\* every row below a filled row is filled.
C23_VolumeFill ==
    (lastCall.op = "VolumePane.render" /\ lastCall.args[3] # <<>>) =>
        LET pane == [height |-> lastCall.args[1], unicodeFill |-> lastCall.args[2]]
            volume == lastCall.args[3][1]
            y == lastCall.args[4]
            divisor == IF lastCall.args[5] = 0 THEN 1 ELSE lastCall.args[5]
            filled == y * divisor < volume * pane.height
        IN  /\ filled => returned = <<pane.unicodeFill>>
            /\ (~filled /\ y = 1 /\ pane.unicodeFill = UNICODE_FILL) =>
                   returned = <<UNICODE_HALF_BODY_BOTTOM>>
            /\ (~filled /\ ~(y = 1 /\ pane.unicodeFill = UNICODE_FILL)) =>
                   returned = <<UNICODE_VOID>>
            /\ filled =>
                   \A below \in 1..y :
                       VolumePane_render(pane, Candle(1, 1, 1, 1, lastCall.args[3]), below,
                                         lastCall.args[5]) = pane.unicodeFill

\* the topmost filled row of a candle whose ratio is not a whole number,
\* and the first void row above the bars of a candle
C23_Witness ==
    /\ lastCall.op = "VolumePane.render" /\ lastCall.args[3] # <<>>
    /\ lastCall.args[5] > 0
    /\ lastCall.args[3][1] <= lastCall.args[5]
    /\ (lastCall.args[3][1] * lastCall.args[1]) % lastCall.args[5] # 0
    /\ lastCall.args[4] * lastCall.args[5] < lastCall.args[3][1] * lastCall.args[1]
    /\ (lastCall.args[4] + 1) * lastCall.args[5] > lastCall.args[3][1] * lastCall.args[1]
    /\ returned = <<lastCall.args[2]>>

C23_WitnessVoid ==
    /\ lastCall.op = "VolumePane.render" /\ lastCall.args[3] # <<>>
    /\ lastCall.args[5] > 0 /\ lastCall.args[3][1] > 0
    /\ lastCall.args[4] > 1 /\ lastCall.args[4] <= lastCall.args[1]
    /\ lastCall.args[4] * lastCall.args[5] = lastCall.args[3][1] * lastCall.args[1]
    /\ returned = <<UNICODE_VOID>>

(***************************************************************************)
(* The rendered output.                                                    *)
(***************************************************************************)
\* C15: in a rendered chart the axis cell of a price row carries a price
\* label exactly when the row number is a multiple of Y_AXIS_SPACING, or the
\* top row (y = height), or the bottom row (y = 1); on every other row it is
\* blank.
C15_LabelsOnTickRows ==
    (lastCall.op = "render" /\ lastCall.threw = "none") =>
        \A k \in 1..Len(returned) :
            (returned[k].kind = "axis" /\ returned[k].y >= 1) =>
                (returned[k].glyph = "price"
                    <=> (returned[k].y % Y_AXIS_SPACING = 0 \/ returned[k].y = height
                            \/ returned[k].y = 1))
\* C17: a render is a pure function of the chart state: it changes none of
\* the chart's state (candles, size, height, scaling mode, ranges, volume
\* pane), and a render that directly follows a render returns the same
\* output.
C17_RenderPure ==
    [][lastCall'.op = "render" =>
          /\ UNCHANGED <<mainCandleSet, visibleCandleSet, terminalSize, width, height,
                         margins, scalingMode, timeRange, priceRange, volumePane>>
          /\ (lastCall.op = "render" => returned' = returned)]_vars

\* the state part alone, and the repetition part alone
C17_RenderKeepsState ==
    [][lastCall'.op = "render" =>
          UNCHANGED <<mainCandleSet, visibleCandleSet, terminalSize, width, height,
                      margins, scalingMode, timeRange, priceRange, volumePane>>]_vars

C17_RenderRepeats ==
    [][(lastCall'.op = "render" /\ lastCall.op = "render") => returned' = returned]_vars
\* C18: every candle a chart's main set holds, after construction and after
\* any sequence of updateCandles calls, has high >= max(open, close),
\* low <= min(open, close), its four prices >= 0 and, when it has a volume,
\* volume >= 0.
C18_CandlesValid ==
    \A k \in 1..Len(mainCandleSet.candles) :
        LET c == mainCandleSet.candles[k]
        IN  /\ IsCandle(c)
            /\ c.high >= Max2(c.open, c.close)
            /\ c.low <= Min2(c.open, c.close)
            /\ c.open >= 0 /\ c.high >= 0 /\ c.low >= 0 /\ c.close >= 0
            /\ c.volume # <<>> => c.volume[1] >= 0

\* the part the constructor's validation establishes, for the constructed
\* chart
C18_ConstructedConsistent ==
    lastCall.op = "new" =>
        \A k \in 1..Len(mainCandleSet.candles) :
            LET c == mainCandleSet.candles[k]
            IN  /\ c.high >= Max2(c.open, c.close)
                /\ c.low <= Min2(c.open, c.close)
                /\ c.volume # <<>> => c.volume[1] >= 0
\* the lines of the output that hold something: the output cut at its line
\* breaks, the empty lines left out
Lines(pieces) ==
    LET breaks == {0} \cup {k \in 1..Len(pieces) : pieces[k].kind = "newline"}
        nextBreak(b) ==
            IF \E k \in breaks : k > b
            THEN CHOOSE k \in breaks : k > b /\ \A j \in breaks : j > b => k <= j
            ELSE Len(pieces) + 1
        starts == {b \in breaks : nextBreak(b) > b + 1}
    IN  [r \in 1..Cardinality(starts) |->
            LET b == CHOOSE c \in starts : Cardinality({d \in starts : d < c}) = r - 1
            IN  SubSeq(pieces, b + 1, nextBreak(b) - 1)]

\* a line made of one axis cell and n glyphs of the given kind for row y
IsRow(line, kind, y, n) ==
    /\ Len(line) = n + 1
    /\ line[1].kind = "axis"
    /\ \A i \in 2..(n + 1) : line[i].kind = kind /\ line[i].y = y

\* the rows of a render: height price rows from y = height down to 1, then
\* the volume rows from the pane height down to 1 when the pane is enabled,
\* each with one glyph per rendered candle
RowsInOrder(lines) ==
    LET n == Len(candlesToRender(visibleCandleSet.candles, lastCall.args[1]))
        vh == IF volumePane.enabled THEN volumePane.height ELSE 0
    IN  /\ Len(lines) >= height + vh
        /\ \A r \in 1..height : IsRow(lines[r], "candle", height + 1 - r, n)
        /\ \A r \in 1..vh : IsRow(lines[height + r], "volume", vh + 1 - r, n)

\* C19: a render emits exactly `height` price rows, for y = height down to
\* 1, then when the volume pane is enabled exactly paneHeight volume rows
\* for y = paneHeight down to 1, then exactly one statistics line; every
\* price row and every volume row holds one glyph per rendered candle.
C19_RowsThenStatistics ==
    (lastCall.op = "render" /\ lastCall.threw = "none") =>
        LET lines == Lines(returned)
            vh == IF volumePane.enabled THEN volumePane.height ELSE 0
        IN  /\ Len(lines) = height + vh + 1
            /\ RowsInOrder(lines)
            /\ Len(lines[Len(lines)]) = 1
            /\ lines[Len(lines)][1].kind = "stats"

\* the same for the renders with the volume pane enabled
C19_RowsWithPane ==
    (lastCall.op = "render" /\ lastCall.threw = "none" /\ volumePane.enabled) =>
        LET lines == Lines(returned)
        IN  /\ Len(lines) = height + volumePane.height + 1
            /\ RowsInOrder(lines)
            /\ lines[Len(lines)] = <<Piece("stats", 0, "labels")>>

\* without the pane the statistics are emitted once, at the end of the
\* line of the bottom price row
C19_StatisticsOnBottomRow ==
    (lastCall.op = "render" /\ lastCall.threw = "none" /\ ~volumePane.enabled) =>
        LET lines == Lines(returned)
            bottom == lines[Len(lines)]
        IN  /\ Len(lines) = height
            /\ bottom[1] = Piece("axis", 1, "price")
            /\ bottom[Len(bottom)] = Piece("stats", 0, "infoBar")
            /\ \A r \in 1..(height - 1) :
                   \A i \in 1..Len(lines[r]) : lines[r][i].kind # "stats"
(***************************************************************************)
(* Auto-resize.                                                            *)
(***************************************************************************)
\* C25: once disableAutoResize() has returned and until auto-resize is
\* enabled again, no auto-resize callback ('resize' listener, interval tick
\* or initial delayed refresh) runs updateSizeFromTerminal or draw, whatever
\* enableAutoResize / disableAutoResize calls came before.
C25_NoCallbackAfterDisable ==
    [][autoResize.cleanup = <<>> => lastCall'.op # "resizeHandler"]_vars

\* the listeners and the intervals are gone after a disable
C25_ListenersRemoved ==
    autoResize.cleanup = <<>> => autoResize.listeners = {} /\ autoResize.intervals = {}

\* at most one listener and one interval are registered at any time
C25_OneRegistration ==
    /\ autoResize.listeners = {autoResize.cleanup[k] : k \in 1..Len(autoResize.cleanup)}
    /\ autoResize.intervals = autoResize.listeners
====
